---- MODULE Spec2Model ----
(***************************************************************************)
(* Model of the odyssey wallet manager (package wallet, Manager) together  *)
(* with the vault it seals the mnemonic in (package crypto, Vault), the    *)
(* session file that caches the mnemonic, and the network file read when a *)
(* Manager is constructed.                                                 *)
(*                                                                         *)
(* Time is counted in minutes.  A file is a sequence: <<>> when the file   *)
(* does not exist, <<content>> when it does.  Every handler of the Manager *)
(* is one action; `last' records what the latest call was given, what it   *)
(* returned and the order of its effects (`log').                          *)
(***************************************************************************)
EXTENDS Integers, Sequences, FiniteSets, TLC

(* ------------------------------ bounds -------------------------------- *)
MaxNow == 31
MaxEntropy == 1

(* ------------------------- program constants -------------------------- *)
NetworkMainnet == "mainnet"
NetworkTestnet == "testnet"
EthDerivationPath == "m/44'/60'/0'/0/0"
BtcDerivationPath == "m/44'/0'/0'/0/0"
SolDerivationPath == "m/44'/501'/0'/0'"
EthTestnetDerivationPath == "m/44'/1'/0'/0/0"
SolTestnetDerivationPath == "m/44'/501'/0'/1'"
SessionDuration == 30
EntropyBits == 256

Networks == {NetworkMainnet, NetworkTestnet}
Passwords == {"pw1", "pw2"}
(* what crypto/rand can give: the entropy of a new mnemonic, and the salt, *)
(* the nonce and the session token (one value each here: nothing in the    *)
(* manager reads them back except Decrypt, which is given the vault's own) *)
Entropies == 1..MaxEntropy
Salts == {1}
Nonces == {1}
Tokens == {1}

(* the instants the clock is observed at: the start, and those from the    *)
(* expiration of a session created at the start on                         *)
Instants == {0} \cup (SessionDuration..MaxNow)

(* outcomes of os.WriteFile: written; refused before the file is opened    *)
(* (file untouched); failed after the file was truncated (partial content) *)
WriteOutcomes == {"ok", "open_fail", "write_fail"}

(* what can happen to the disk in Initialize and ImportFromMnemonic: the   *)
(* directory cannot be made, or the vault write ends as vw and, when that  *)
(* succeeded, the session write as sw                                      *)
DiskOutcomes ==
    {<<FALSE, "ok", "ok">>}
        \cup {<<TRUE, vw, "ok">> : vw \in WriteOutcomes \ {"ok"}}
        \cup {<<TRUE, "ok", sw>> : sw \in WriteOutcomes}

(* ----------------------------- mnemonics ------------------------------ *)
(* A mnemonic is abstracted to the entropy it encodes, its word count,     *)
(* whether all its words are in the word list and whether its checksum     *)
(* matches.  The empty string "" is the mnemonic of zero words.            *)
Mn(e, w, k, c) == [ent |-> e, words |-> w, known |-> k, sum |-> c]
EmptyMnemonic == Mn(0, 0, TRUE, TRUE)

NewMnemonic(e, bits) == Mn(e, (bits + bits \div 32) \div 11, TRUE, TRUE)

(* the check of the recovery-phrase command: 24 words, nothing else *)
IsMnemonicValid_WordCountOnly(mn) == mn.words = 24

IsMnemonicValid(mn) ==
    /\ mn.words \in {12, 15, 18, 21, 24}
    /\ mn.known
    /\ mn.sum

(* the phrases a caller may hand to ImportFromMnemonic *)
ImportMnemonics ==
    {Mn(e, 24, TRUE, TRUE) : e \in Entropies}
        \cup {Mn(1, 23, TRUE, TRUE), Mn(1, 24, FALSE, TRUE),
              Mn(1, 24, TRUE, FALSE), Mn(1, 12, TRUE, TRUE)}

(* ------------------------------- vault -------------------------------- *)
deriveKey(password, salt) == [pw |-> password, salt |-> salt]

(* AES-GCM (crypto/cipher, outside the repository), by its contract: Seal  *)
(* makes a box that Open opens only under the key and the nonce it was     *)
(* sealed with, and only while no bit of it has changed.  flipped is the   *)
(* set of ciphertext bits that differ from what Seal produced.  The second *)
(* result of encrypt (the MAC) is always nil.                              *)
encrypt(key, nonce, data) ==
    [key |-> key, nonce |-> nonce, pt |-> data, flipped |-> {}]

VaultData(mnemonic) == [mnemonic |-> mnemonic, version |-> 1]

(* json.Marshal / json.Unmarshal of a VaultData: the object's keys and     *)
(* values in the order of the struct                                       *)
MarshalVaultData(d) == <<"mnemonic", d.mnemonic, "version", d.version>>

UnmarshalVaultData(b) ==
    IF Len(b) = 4 /\ b[1] = "mnemonic" /\ b[3] = "version"
    THEN [err |-> FALSE, data |-> [mnemonic |-> b[2], version |-> b[4]]]
    ELSE [err |-> TRUE, data |-> VaultData(EmptyMnemonic)]

NewVault(mnemonic, password, salt, nonce) ==
    [Salt |-> salt, Nonce |-> nonce,
     Data |-> encrypt(deriveKey(password, salt), nonce,
                      MarshalVaultData(VaultData(mnemonic))),
     MAC |-> <<>>]

decrypt(key, nonce, data, mac) ==
    IF data.key = key /\ data.nonce = nonce /\ data.flipped = {}
    THEN [err |-> FALSE, pt |-> data.pt]
    ELSE [err |-> TRUE, pt |-> <<>>]

Decrypt_SealedNonce(v, password) ==
    LET r == decrypt(deriveKey(password, v.Salt), v.Data.nonce, v.Data, v.MAC)
        d == UnmarshalVaultData(r.pt)
    IN  IF r.err \/ d.err THEN [err |-> TRUE, mnemonic |-> EmptyMnemonic]
        ELSE [err |-> FALSE, mnemonic |-> d.data.mnemonic]

Decrypt(v, password) ==
    LET r == decrypt(deriveKey(password, v.Salt), v.Nonce, v.Data, v.MAC)
        d == UnmarshalVaultData(r.pt)
    IN  IF r.err \/ d.err THEN [err |-> TRUE, mnemonic |-> EmptyMnemonic]
        ELSE [err |-> FALSE, mnemonic |-> d.data.mnemonic]

ValidatePassword(v, password) == ~Decrypt(v, password).err

(* json.Marshal / json.Unmarshal of a Vault: the content of the vault file *)
MarshalVault(v) ==
    [json |-> TRUE, salt |-> v.Salt, nonce |-> v.Nonce, data |-> v.Data,
     mac |-> v.MAC]

UnmarshalVault_SaltForNonce(c) ==
    [Salt |-> c.salt, Nonce |-> c.salt, Data |-> c.data, MAC |-> c.mac]

UnmarshalVault(c) ==
    [Salt |-> c.salt, Nonce |-> c.nonce, Data |-> c.data, MAC |-> c.mac]

(* a vault file whose content does not parse as JSON *)
PartialVault ==
    [json |-> FALSE, salt |-> 0, nonce |-> 0,
     data |-> encrypt(deriveKey("", 0), 0,
                      MarshalVaultData(VaultData(EmptyMnemonic))),
     mac |-> <<>>]

(* ------------------------------ session ------------------------------- *)
SessionData(token, mnemonic, expiration, network) ==
    [Token |-> token, Mnemonic |-> mnemonic, Expiration |-> expiration,
     Network |-> network]

MarshalSession(s) ==
    [json |-> TRUE, token |-> s.Token, mnemonic |-> s.Mnemonic,
     expiration |-> s.Expiration, network |-> s.Network]

UnmarshalSession(c) ==
    SessionData(c.token, c.mnemonic, c.expiration, c.network)

(* a session file whose content does not parse as JSON *)
PartialSession ==
    [json |-> FALSE, token |-> 0, mnemonic |-> EmptyMnemonic,
     expiration |-> 0, network |-> ""]

(* os.WriteFile(path, data): the file after the call, given its outcome *)
WriteFile(file, data, partial, outcome) ==
    CASE outcome = "ok" -> <<data>>
      [] outcome = "open_fail" -> file
      [] OTHER -> <<partial>>

(* time.Time.After *)
After(t, u) == t > u

(* ------------------------------ manager ------------------------------- *)
(* NewManager: the network is read from the network file, mainnet when the *)
(* file is missing or holds anything else.                                 *)
NewManager(nf) ==
    [vault |-> <<>>, mnemonic |-> EmptyMnemonic, password |-> "",
     unlocked |-> FALSE,
     network |-> IF nf # <<>> /\ nf[1] \in Networks THEN nf[1]
                 ELSE NetworkMainnet]

createSession(mgr, sf, t, token, outcome) ==
    LET session == SessionData(token, mgr.mnemonic, t + SessionDuration,
                               mgr.network)
    IN  [err |-> outcome # "ok",
         sessionFile |-> WriteFile(sf, MarshalSession(session),
                                   PartialSession, outcome)]

(* loadSession without the network check *)
loadSession_AnyNetwork(mgr, sf, t) ==
    IF sf = <<>> THEN [ok |-> FALSE, m |-> mgr, sessionFile |-> sf]
    ELSE IF ~sf[1].json THEN [ok |-> FALSE, m |-> mgr, sessionFile |-> <<>>]
    ELSE LET session == UnmarshalSession(sf[1])
         IN  IF After(t, session.Expiration)
             THEN [ok |-> FALSE, m |-> mgr, sessionFile |-> <<>>]
             ELSE [ok |-> TRUE,
                   m |-> [mgr EXCEPT !.mnemonic = session.Mnemonic,
                                     !.unlocked = TRUE],
                   sessionFile |-> sf]

loadSession(mgr, sf, t) ==
    IF sf = <<>> THEN [ok |-> FALSE, m |-> mgr, sessionFile |-> sf]
    ELSE IF ~sf[1].json THEN [ok |-> FALSE, m |-> mgr, sessionFile |-> <<>>]
    ELSE LET session == UnmarshalSession(sf[1])
         IN  IF After(t, session.Expiration)
             THEN [ok |-> FALSE, m |-> mgr, sessionFile |-> <<>>]
             ELSE IF session.Network # mgr.network
             THEN [ok |-> FALSE, m |-> mgr, sessionFile |-> sf]
             ELSE [ok |-> TRUE,
                   m |-> [mgr EXCEPT !.mnemonic = session.Mnemonic,
                                     !.unlocked = TRUE],
                   sessionFile |-> sf]

(* what a call of loadSession on session file sf did, for the call's log *)
LoadLog(ls, sf) ==
    IF ls.ok THEN <<"session accepted">>
    ELSE IF sf = <<>> THEN <<"no session">>
    ELSE IF ls.sessionFile = <<>> THEN <<"session rejected and removed">>
    ELSE <<"session rejected and kept">>

clearSession(sf) == <<>>

saveVault(vf, vault, outcome) ==
    [err |-> outcome # "ok",
     vaultFile |-> WriteFile(vf, MarshalVault(vault), PartialVault, outcome)]

loadVault(vf) ==
    IF vf = <<>> \/ ~vf[1].json
    THEN [err |-> TRUE, vault |-> <<>>]
    ELSE [err |-> FALSE, vault |-> <<UnmarshalVault(vf[1])>>]

VaultExists(vf) == vf # <<>>

(* BIP-39 seed of a mnemonic, and the keys and addresses derived from it *)
NewSeed(mnemonic, passphrase) ==
    [mnemonic |-> mnemonic, passphrase |-> passphrase]

DerivedKey(chain, seed, path, kind) ==
    [chain |-> chain, seed |-> seed, path |-> path, kind |-> kind]

NoKey == DerivedKey("", NewSeed(EmptyMnemonic, ""), "", "")

deriveEthereumKey(seed, path) == DerivedKey("ETH", seed, path, "key")
deriveBitcoinKey(seed, path) == DerivedKey("BTC", seed, path, "key")
deriveSolanaKey(seed, path) == DerivedKey("SOL", seed, path, "key")
AddressOf(key) == [key EXCEPT !.kind = "address"]

(* What a handler hands back: the manager and the files after the call,    *)
(* the error ("" for nil), the order of the call's effects and the value   *)
(* returned (a boolean, a mnemonic or a key, by handler).                  *)
Answer(mgr, vf, sf, err, log, ok, mnemonic, key) ==
    [m |-> mgr, vaultFile |-> vf, sessionFile |-> sf, err |-> err,
     log |-> log, ok |-> ok, mnemonic |-> mnemonic, key |-> key]

Outcome(mgr, vf, sf, err, log) ==
    Answer(mgr, vf, sf, err, log, err = "", EmptyMnemonic, NoKey)

(* SealAndUnlock that unlocks and creates the session whether or not the  *)
(* vault was saved                                                         *)
SealAndUnlock_BeforeSave(mgr, vf, sf, t, mnemonic, password, salt, nonce, token, dirOK, vw, sw) ==
    LET vault == NewVault(mnemonic, password, salt, nonce)
        sv == saveVault(vf, vault, IF dirOK THEN vw ELSE "open_fail")
        m1 == [mgr EXCEPT !.vault = <<vault>>, !.mnemonic = mnemonic,
                          !.password = password, !.unlocked = TRUE]
        cs == createSession(m1, sf, t, token, sw)
    IN  Outcome(m1, sv.vaultFile, cs.sessionFile,
                IF sv.err THEN "failed to save vault"
                ELSE IF cs.err THEN "failed to create session" ELSE "",
                <<"unlocked", "createSession", "saveVault">>)

(* the tail shared by the source of Initialize and ImportFromMnemonic:     *)
(* create the vault, make the directory, save, unlock, create the session  *)
SealAndUnlock(mgr, vf, sf, t, mnemonic, password, salt, nonce, token, dirOK, vw, sw) ==
    LET vault == NewVault(mnemonic, password, salt, nonce)
        sv == saveVault(vf, vault, vw)
        m1 == [mgr EXCEPT !.vault = <<vault>>, !.mnemonic = mnemonic,
                          !.password = password, !.unlocked = TRUE]
        cs == createSession(m1, sf, t, token, sw)
    IN  IF ~dirOK
        THEN Outcome(mgr, vf, sf, "failed to create directory", <<>>)
        ELSE IF sv.err
        THEN Outcome(mgr, sv.vaultFile, sf, "failed to save vault",
                     <<"saveVault">>)
        ELSE IF cs.err
        THEN Outcome(m1, sv.vaultFile, cs.sessionFile,
                     "failed to create session",
                     <<"saveVault", "unlocked", "createSession">>)
        ELSE Outcome(m1, sv.vaultFile, cs.sessionFile, "",
                     <<"saveVault", "unlocked", "createSession">>)

Initialize(mgr, vf, sf, t, password, e, salt, nonce, token, dirOK, vw, sw) ==
    SealAndUnlock(mgr, vf, sf, t, NewMnemonic(e, EntropyBits), password,
                  salt, nonce, token, dirOK, vw, sw)

ImportFromMnemonic(mgr, vf, sf, t, mnemonic, password, salt, nonce, token, dirOK, vw, sw) ==
    IF ~IsMnemonicValid(mnemonic)
    THEN Outcome(mgr, vf, sf, "invalid mnemonic", <<>>)
    ELSE SealAndUnlock(mgr, vf, sf, t, mnemonic, password, salt, nonce,
                       token, dirOK, vw, sw)

(* Unlock that checks the password against the vault before it looks at   *)
(* the session                                                             *)
Unlock_PasswordFirst(mgr, vf, sf, t, password, token, sw) ==
    LET lv == loadVault(vf)
        ls == loadSession(mgr, sf, t)
    IN  IF lv.err
        THEN Outcome(mgr, vf, sf, "failed to load vault", <<"loadVault">>)
        ELSE IF ~ValidatePassword(lv.vault[1], password)
        THEN Outcome([mgr EXCEPT !.vault = lv.vault], vf, sf,
                     "invalid password", <<"loadVault", "Decrypt">>)
        ELSE IF ls.ok
        THEN Outcome([ls.m EXCEPT !.vault = lv.vault], vf, ls.sessionFile,
                     "", <<"loadVault", "Decrypt">> \o LoadLog(ls, sf))
        ELSE LET m3 == [mgr EXCEPT !.vault = lv.vault,
                                   !.mnemonic =
                                       Decrypt(lv.vault[1], password).mnemonic,
                                   !.password = password, !.unlocked = TRUE]
                 cs == createSession(m3, ls.sessionFile, t, token, sw)
             IN  Outcome(m3, vf, cs.sessionFile,
                         IF cs.err THEN "failed to create session" ELSE "",
                         <<"loadVault", "Decrypt">> \o LoadLog(ls, sf)
                             \o <<"unlocked", "createSession">>)

Unlock(mgr, vf, sf, t, password, token, sw) ==
    LET ls == loadSession(mgr, sf, t)
        lv == loadVault(vf)
        m2 == IF mgr.vault = <<>> THEN [mgr EXCEPT !.vault = lv.vault]
              ELSE mgr
        logV == IF mgr.vault = <<>> THEN LoadLog(ls, sf) \o <<"loadVault">>
                ELSE LoadLog(ls, sf)
        d == Decrypt(m2.vault[1], password)
        m3 == [m2 EXCEPT !.mnemonic = d.mnemonic, !.password = password,
                         !.unlocked = TRUE]
        cs == createSession(m3, ls.sessionFile, t, token, sw)
    IN  IF ls.ok
        THEN Outcome(ls.m, vf, ls.sessionFile, "", LoadLog(ls, sf))
        ELSE IF mgr.vault = <<>> /\ lv.err
        THEN Outcome(mgr, vf, ls.sessionFile, "failed to load vault", logV)
        ELSE IF ~ValidatePassword(m2.vault[1], password)
        THEN Outcome(m2, vf, ls.sessionFile, "invalid password",
                     logV \o <<"Decrypt">>)
        ELSE IF d.err
        THEN Outcome(m2, vf, ls.sessionFile, "failed to decrypt vault",
                     logV \o <<"Decrypt", "Decrypt">>)
        ELSE IF cs.err
        THEN Outcome(m3, vf, cs.sessionFile, "failed to create session",
                     logV \o <<"Decrypt", "Decrypt", "unlocked",
                               "createSession">>)
        ELSE Outcome(m3, vf, cs.sessionFile, "",
                     logV \o <<"Decrypt", "Decrypt", "unlocked",
                               "createSession">>)

Lock(mgr, vf, sf) ==
    Outcome([mgr EXCEPT !.unlocked = FALSE, !.mnemonic = EmptyMnemonic,
                        !.password = ""],
            vf, clearSession(sf), "", <<"locked", "clearSession">>)

IsUnlocked(mgr, vf, sf, t) ==
    IF mgr.unlocked /\ mgr.mnemonic # EmptyMnemonic
    THEN Answer(mgr, vf, sf, "", <<>>, TRUE, EmptyMnemonic, NoKey)
    ELSE LET ls == loadSession(mgr, sf, t)
         IN  Answer(ls.m, vf, ls.sessionFile, "", LoadLog(ls, sf), ls.ok,
                    EmptyMnemonic, NoKey)

GetMnemonic(mgr, vf, sf, t) ==
    IF mgr.unlocked /\ mgr.mnemonic # EmptyMnemonic
    THEN Answer(mgr, vf, sf, "", <<>>, TRUE, mgr.mnemonic, NoKey)
    ELSE LET ls == loadSession(mgr, sf, t)
         IN  IF ~ls.ok
             THEN Answer(ls.m, vf, ls.sessionFile, "wallet is locked",
                         LoadLog(ls, sf), FALSE, EmptyMnemonic, NoKey)
             ELSE Answer(ls.m, vf, ls.sessionFile, "", LoadLog(ls, sf),
                         TRUE, ls.m.mnemonic, NoKey)

(* the lock check every key accessor starts with *)
RequireUnlocked(mgr, sf, t) ==
    IF ~mgr.unlocked
    THEN LET ls == loadSession(mgr, sf, t)
         IN  [ok |-> ls.ok, m |-> ls.m, sessionFile |-> ls.sessionFile,
              log |-> LoadLog(ls, sf)]
    ELSE [ok |-> TRUE, m |-> mgr, sessionFile |-> sf, log |-> <<>>]

GetEthereumKey(mgr, vf, sf, t) ==
    LET ru == RequireUnlocked(mgr, sf, t)
        seed == NewSeed(ru.m.mnemonic, "")
        derivationPath == IF ru.m.network = NetworkTestnet
                          THEN EthTestnetDerivationPath
                          ELSE EthDerivationPath
    IN  IF ~ru.ok
        THEN Answer(ru.m, vf, ru.sessionFile, "wallet is locked", ru.log,
                    FALSE, EmptyMnemonic, NoKey)
        ELSE Answer(ru.m, vf, ru.sessionFile, "", ru.log \o <<"derive">>,
                    TRUE, EmptyMnemonic,
                    deriveEthereumKey(seed, derivationPath))

GetEthereumAddress(mgr, vf, sf, t) ==
    LET k == GetEthereumKey(mgr, vf, sf, t)
    IN  IF k.err # "" THEN k ELSE [k EXCEPT !.key = AddressOf(k.key)]

(* GetBitcoinKey that checks the lock before the network *)
GetBitcoinKey_LockFirst(mgr, vf, sf, t) ==
    LET ru == RequireUnlocked(mgr, sf, t)
        seed == NewSeed(ru.m.mnemonic, "")
    IN  IF ~ru.ok
        THEN Answer(ru.m, vf, ru.sessionFile, "wallet is locked", ru.log,
                    FALSE, EmptyMnemonic, NoKey)
        ELSE IF mgr.network = NetworkTestnet
        THEN Answer(ru.m, vf, ru.sessionFile,
                    "bitcoin is not supported in testnet mode", ru.log,
                    FALSE, EmptyMnemonic, NoKey)
        ELSE Answer(ru.m, vf, ru.sessionFile, "", ru.log \o <<"derive">>,
                    TRUE, EmptyMnemonic,
                    deriveBitcoinKey(seed, BtcDerivationPath))

GetBitcoinKey(mgr, vf, sf, t) ==
    LET ru == RequireUnlocked(mgr, sf, t)
        seed == NewSeed(ru.m.mnemonic, "")
    IN  IF mgr.network = NetworkTestnet
        THEN Answer(mgr, vf, sf, "bitcoin is not supported in testnet mode",
                    <<>>, FALSE, EmptyMnemonic, NoKey)
        ELSE IF ~ru.ok
        THEN Answer(ru.m, vf, ru.sessionFile, "wallet is locked", ru.log,
                    FALSE, EmptyMnemonic, NoKey)
        ELSE Answer(ru.m, vf, ru.sessionFile, "", ru.log \o <<"derive">>,
                    TRUE, EmptyMnemonic,
                    deriveBitcoinKey(seed, BtcDerivationPath))

GetBitcoinAddress(mgr, vf, sf, t) ==
    LET k == GetBitcoinKey(mgr, vf, sf, t)
    IN  IF mgr.network = NetworkTestnet
        THEN Answer(mgr, vf, sf, "bitcoin is not supported in testnet mode",
                    <<>>, FALSE, EmptyMnemonic, NoKey)
        ELSE IF k.err # "" THEN k ELSE [k EXCEPT !.key = AddressOf(k.key)]

GetSolanaKey(mgr, vf, sf, t) ==
    LET ru == RequireUnlocked(mgr, sf, t)
        seed == NewSeed(ru.m.mnemonic, "")
        derivationPath == IF ru.m.network = NetworkTestnet
                          THEN SolTestnetDerivationPath
                          ELSE SolDerivationPath
    IN  IF ~ru.ok
        THEN Answer(ru.m, vf, ru.sessionFile, "wallet is locked", ru.log,
                    FALSE, EmptyMnemonic, NoKey)
        ELSE Answer(ru.m, vf, ru.sessionFile, "", ru.log \o <<"derive">>,
                    TRUE, EmptyMnemonic,
                    deriveSolanaKey(seed, derivationPath))

GetSolanaAddress(mgr, vf, sf, t) ==
    LET k == GetSolanaKey(mgr, vf, sf, t)
    IN  IF k.err # "" THEN k ELSE [k EXCEPT !.key = AddressOf(k.key)]

(* the network file a starting program may find: missing, written by      *)
(* `odyssey network <n>' (setNetwork), or holding anything else            *)
NetworkFiles == {<<>>, <<NetworkMainnet>>, <<NetworkTestnet>>, <<"">>}

(* ------------------------------- state -------------------------------- *)
VARIABLES now, vaultFile, sessionFile, m, last

(* mu and pc: the Manager's reader/writer lock and the goroutines calling  *)
(* it; hd: a path derivation of hdwallet.go; btc, eth, sol: a run of       *)
(* sendBitcoin, of sendEthereum, of sendSolana; vlt: a vault of            *)
(* crypto/vault.go from NewVault to Decrypt; fan: the goroutines and the   *)
(* channel of showAllTransactionsPaginated.  Each specification moves its  *)
(* own variables and leaves the others parked; where two Managers share    *)
(* one data directory, m maps each of them to its fields.                  *)
VARIABLES mu, pc, hd, btc, eth, sol, vlt, fan

walletVars == <<now, vaultFile, sessionFile, m, last>>
muVars == <<mu, pc>>
payVars == <<hd, btc, eth>>
auxVars == <<sol, vlt, fan>>
vars == <<now, vaultFile, sessionFile, m, last, mu, pc, hd, btc, eth,
          sol, vlt, fan>>

Parked == <<>>

(* How the session file looked to the manager when a call started.  The   *)
(* classes follow the data model: a session is valid only while            *)
(* now < expiration and its network is the manager's.                      *)
SessionClass(mgr, sf, t) ==
    IF sf = <<>> THEN "none"
    ELSE IF ~sf[1].json THEN "unparseable"
    ELSE IF ~(t < sf[1].expiration) THEN "expired"
    ELSE IF sf[1].network # mgr.network THEN "othernet"
    ELSE "valid"

(* the vault Unlock would check a password against: the one the manager    *)
(* has loaded, else the one in the vault file                              *)
TheVault(mgr, vf) == IF mgr.vault # <<>> THEN mgr.vault ELSE loadVault(vf).vault

Opens(mgr, vf, password) ==
    /\ TheVault(mgr, vf) # <<>>
    /\ LET v == TheVault(mgr, vf)[1]
       IN  v.Data.key = deriveKey(password, v.Salt) /\ v.Data.nonce = v.Nonce

(* what a call found: was there a vault file, how the session file looked, *)
(* was the manager unlocked in memory, did the password given open the     *)
(* vault                                                                   *)
Pre(password) ==
    [vault |-> VaultExists(vaultFile),
     session |-> SessionClass(m, sessionFile, now),
     unlocked |-> m.unlocked,
     opens |-> Opens(m, vaultFile, password)]

NoCall == [op |-> "", password |-> "", given |-> EmptyMnemonic, err |-> "",
           ok |-> FALSE, mnemonic |-> EmptyMnemonic, key |-> NoKey,
           log |-> <<>>,
           pre |-> [vault |-> FALSE, session |-> "none", unlocked |-> FALSE,
                    opens |-> FALSE]]

(* a call of handler op with answer a *)
Call(op, password, given, a) ==
    /\ m' = a.m
    /\ vaultFile' = a.vaultFile
    /\ sessionFile' = a.sessionFile
    /\ last' = [op |-> op, password |-> password, given |-> given,
                err |-> a.err, ok |-> a.ok, mnemonic |-> a.mnemonic,
                key |-> a.key, log |-> a.log, pre |-> Pre(password)]
    /\ UNCHANGED <<now, muVars, payVars, auxVars>>

Init ==
    /\ now = 0
    /\ vaultFile = <<>>
    /\ sessionFile = <<>>
    /\ m = NewManager(<<>>)
    /\ last = NoCall
    /\ mu = Parked /\ pc = Parked
    /\ hd = Parked /\ btc = Parked /\ eth = Parked
    /\ sol = Parked /\ vlt = Parked /\ fan = Parked

(* the clock advances *)
Tick ==
    /\ now < MaxNow
    /\ \E t \in Instants : t > now /\ now' = t
    /\ last' = [NoCall EXCEPT !.op = "Tick"]
    /\ UNCHANGED <<vaultFile, sessionFile, m, muVars, payVars, auxVars>>

(* a new invocation of the program constructs its Manager from the        *)
(* network file it finds                                                   *)
NewManagerAct ==
    \E nf \in NetworkFiles :
        /\ m' = NewManager(nf)
        /\ last' = [NoCall EXCEPT !.op = "NewManager"]
        /\ UNCHANGED <<now, vaultFile, sessionFile, muVars, payVars, auxVars>>

InitializeAct ==
    \E p \in Passwords, e \in Entropies, s \in Salts, n \in Nonces,
       k \in Tokens, d \in DiskOutcomes :
        Call("Initialize", p, EmptyMnemonic,
             Initialize(m, vaultFile, sessionFile, now, p, e, s, n, k,
                        d[1], d[2], d[3]))

ImportFromMnemonicAct ==
    \E mn \in ImportMnemonics, p \in Passwords, s \in Salts, n \in Nonces,
       k \in Tokens :
      \E d \in IF IsMnemonicValid(mn) THEN DiskOutcomes
                ELSE {<<TRUE, "ok", "ok">>} :
        Call("ImportFromMnemonic", p, mn,
             ImportFromMnemonic(m, vaultFile, sessionFile, now, mn, p, s, n,
                                k, d[1], d[2], d[3]))

UnlockAct ==
    \E p \in Passwords, k \in Tokens, sw \in WriteOutcomes :
        Call("Unlock", p, EmptyMnemonic,
             Unlock(m, vaultFile, sessionFile, now, p, k, sw))

LockAct ==
    Call("Lock", "", EmptyMnemonic, Lock(m, vaultFile, sessionFile))

IsUnlockedAct ==
    Call("IsUnlocked", "", EmptyMnemonic,
         IsUnlocked(m, vaultFile, sessionFile, now))

GetMnemonicAct ==
    Call("GetMnemonic", "", EmptyMnemonic,
         GetMnemonic(m, vaultFile, sessionFile, now))

GetEthereumKeyAct ==
    Call("GetEthereumKey", "", EmptyMnemonic,
         GetEthereumKey(m, vaultFile, sessionFile, now))

GetEthereumAddressAct ==
    Call("GetEthereumAddress", "", EmptyMnemonic,
         GetEthereumAddress(m, vaultFile, sessionFile, now))

GetBitcoinKeyAct ==
    Call("GetBitcoinKey", "", EmptyMnemonic,
         GetBitcoinKey(m, vaultFile, sessionFile, now))

GetBitcoinAddressAct ==
    Call("GetBitcoinAddress", "", EmptyMnemonic,
         GetBitcoinAddress(m, vaultFile, sessionFile, now))

GetSolanaKeyAct ==
    Call("GetSolanaKey", "", EmptyMnemonic,
         GetSolanaKey(m, vaultFile, sessionFile, now))

GetSolanaAddressAct ==
    Call("GetSolanaAddress", "", EmptyMnemonic,
         GetSolanaAddress(m, vaultFile, sessionFile, now))

Next ==
    \/ Tick
    \/ NewManagerAct
    \/ InitializeAct
    \/ ImportFromMnemonicAct
    \/ UnlockAct
    \/ LockAct
    \/ IsUnlockedAct
    \/ GetMnemonicAct
    \/ GetEthereumKeyAct
    \/ GetEthereumAddressAct
    \/ GetBitcoinKeyAct
    \/ GetBitcoinAddressAct
    \/ GetSolanaKeyAct
    \/ GetSolanaAddressAct

Spec == Init /\ [][Next]_vars

(* ------------------------- reading the last call ---------------------- *)
ErrLocked == "wallet is locked"
ErrTestnet == "bitcoin is not supported in testnet mode"

BitcoinOps == {"GetBitcoinKey", "GetBitcoinAddress"}
KeyOps ==
    {"GetEthereumKey", "GetEthereumAddress", "GetSolanaKey",
     "GetSolanaAddress"} \cup BitcoinOps
SessionReaders == {"IsUnlocked", "GetMnemonic"} \cup KeyOps

Logged(e) == \E i \in 1..Len(last.log) : last.log[i] = e
SessionAccepted == Logged("session accepted")
SessionRejected ==
    Logged("session rejected and removed")
        \/ Logged("session rejected and kept")

TypeOK ==
    /\ now \in Instants
    /\ m.unlocked \in BOOLEAN
    /\ m.network \in Networks
    /\ Len(vaultFile) <= 1
    /\ Len(sessionFile) <= 1

(* ------------------------------- claims ------------------------------- *)

(* C1: whenever a vault file already exists, Initialize and               *)
(* ImportFromMnemonic return an error and leave the vault file, the        *)
(* session file and the manager's unlocked, mnemonic and password          *)
(* unchanged.  The source has no such check: the vault is overwritten.     *)
C1_ExistingVaultKept ==
    [][(last'.op \in {"Initialize", "ImportFromMnemonic"}
            /\ VaultExists(vaultFile))
        => /\ last'.err # ""
           /\ vaultFile' = vaultFile
           /\ sessionFile' = sessionFile
           /\ m'.unlocked = m.unlocked
           /\ m'.mnemonic = m.mnemonic
           /\ m'.password = m.password]_vars

(* C2: a session is accepted by loadSession only if the current time is    *)
(* strictly before its expiration; one whose expiration is at or before    *)
(* the current time is never accepted.  The source rejects it only when    *)
(* now is After the expiration.                                            *)
C2_AcceptedOnlyBeforeExpiration ==
    SessionAccepted => last.pre.session # "expired"

(* C3 as stated: a session file of another network, even unexpired, never  *)
(* unlocks the manager: IsUnlocked returns false, GetMnemonic and every    *)
(* key/address accessor return the locked error, and mnemonic and unlocked *)
(* are not set from it.                                                    *)
C3_OtherNetworkLocked ==
    (last.pre.session = "othernet" /\ ~last.pre.unlocked)
        => /\ ~SessionAccepted
           /\ last.op = "IsUnlocked" => ~last.ok
           /\ last.op = "GetMnemonic"
                => last.err = ErrLocked /\ last.mnemonic = EmptyMnemonic
           /\ last.op \in KeyOps
                => last.err = ErrLocked /\ last.key = NoKey
           /\ last.op \in SessionReaders
                => ~m.unlocked /\ m.mnemonic = EmptyMnemonic

(* C3 as amended: the same, except that the Bitcoin accessors of a testnet *)
(* manager return the unsupported-on-testnet error instead of the locked   *)
(* error.                                                                  *)
C3_OtherNetworkNeverUnlocks ==
    (last.pre.session = "othernet" /\ ~last.pre.unlocked)
        => /\ ~SessionAccepted
           /\ last.op = "IsUnlocked" => ~last.ok
           /\ last.op = "GetMnemonic"
                => last.err = ErrLocked /\ last.mnemonic = EmptyMnemonic
           /\ last.op \in KeyOps
                => /\ last.key = NoKey
                   /\ last.err = IF last.op \in BitcoinOps
                                      /\ m.network = NetworkTestnet
                                  THEN ErrTestnet ELSE ErrLocked
           /\ last.op \in SessionReaders
                => ~m.unlocked /\ m.mnemonic = EmptyMnemonic

(* an unexpired mainnet session met by a testnet manager asking for a key *)
C3_Witness ==
    /\ last.pre.session = "othernet"
    /\ last.op = "GetEthereumKey"
    /\ last.err = ErrLocked
    /\ m.network = NetworkTestnet
    /\ sessionFile # <<>>
    /\ sessionFile[1].network = NetworkMainnet

(* C4: whenever loadSession rejects an existing session file (unparseable, *)
(* expired, or of another network), the file no longer exists when it      *)
(* returns.  The source keeps the file of another network.                 *)
C4_RejectedSessionRemoved ==
    /\ ~Logged("session rejected and kept")
    /\ (last.op \in SessionReaders /\ SessionRejected) => sessionFile = <<>>

(* C5: when no valid session exists on disk, Unlock returns an error if    *)
(* the vault file does not exist or the password does not decrypt the      *)
(* vault; the manager stays not unlocked, its mnemonic and password stay   *)
(* empty and no session file is created.  A session whose expiration is    *)
(* the current time is not valid, yet the source accepts it (C2) and       *)
(* Unlock succeeds on it.                                                  *)
C5_UnlockNeedsVaultAndPassword ==
    (/\ last.op = "Unlock"
     /\ last.pre.session # "valid"
     /\ ~last.pre.unlocked
     /\ (~last.pre.vault \/ ~last.pre.opens))
        => /\ last.err # ""
           /\ ~m.unlocked
           /\ m.mnemonic = EmptyMnemonic
           /\ m.password = ""
           /\ ~Logged("createSession")
           /\ (sessionFile = <<>> \/ last.pre.session = "othernet")

(* C6: Unlock consults the session first: on a valid session it succeeds   *)
(* for every password without loading or decrypting the vault (the         *)
(* mnemonic is the session's); the vault is loaded and decrypted only when *)
(* no valid session was found.                                             *)
C6_UnlockSessionFirst ==
    last.op = "Unlock"
        => /\ last.pre.session = "valid"
                => /\ last.err = ""
                   /\ last.log = <<"session accepted">>
                   /\ m.unlocked
                   /\ sessionFile # <<>>
                   /\ m.mnemonic = sessionFile[1].mnemonic
                   /\ ~last.pre.unlocked => m.password = ""
           /\ (Logged("loadVault") \/ Logged("Decrypt"))
                => ~SessionAccepted /\ last.pre.session # "valid"

(* Unlock with a password that does not open the vault, valid session *)
C6_Witness ==
    /\ last.op = "Unlock"
    /\ last.pre.session = "valid"
    /\ last.pre.vault
    /\ ~last.pre.opens
    /\ ~last.pre.unlocked
    /\ last.err = ""
    /\ m.unlocked

(* the state Lock leaves, and what the callers see in it *)
PostLock ==
    /\ ~m.unlocked
    /\ m.mnemonic = EmptyMnemonic
    /\ m.password = ""
    /\ sessionFile = <<>>

LockedOut ==
    /\ ~IsUnlocked(m, vaultFile, sessionFile, now).ok
    /\ GetMnemonic(m, vaultFile, sessionFile, now).err # ""
    /\ GetEthereumKey(m, vaultFile, sessionFile, now).err # ""
    /\ GetEthereumAddress(m, vaultFile, sessionFile, now).err # ""
    /\ GetBitcoinKey(m, vaultFile, sessionFile, now).err # ""
    /\ GetBitcoinAddress(m, vaultFile, sessionFile, now).err # ""
    /\ GetSolanaKey(m, vaultFile, sessionFile, now).err # ""
    /\ GetSolanaAddress(m, vaultFile, sessionFile, now).err # ""

(* C7: after Lock in any state the manager is not unlocked, mnemonic and   *)
(* password are empty and the session file is gone, so IsUnlocked is false *)
(* and GetMnemonic and the accessors fail until a later successful Unlock, *)
(* Initialize or ImportFromMnemonic (here: through the call that follows   *)
(* the Lock); Lock twice leaves the same state as Lock once.  A call that  *)
(* returns an error after it has unlocked the manager (C25) ends the       *)
(* locked state without being a successful call.                           *)
C7_LockedUntilUnlocked ==
    [][/\ last'.op = "Lock" => (PostLock' /\ LockedOut')
       /\ (/\ last.op = "Lock"
           /\ ~(/\ last'.op \in {"Unlock", "Initialize", "ImportFromMnemonic"}
                /\ last'.err = ""))
            => LockedOut'
       /\ (last.op = "Lock" /\ last'.op = "Lock")
            => (m' = m /\ vaultFile' = vaultFile
                    /\ sessionFile' = sessionFile)]_vars

(* C8: for a manager not unlocked in memory with no valid session on disk, *)
(* GetMnemonic and the key/address accessors return the locked error and   *)
(* derive no key; with a valid session they reload it and succeed; no      *)
(* accessor returns a key derived from an empty mnemonic.  (The Bitcoin    *)
(* accessors of a testnet manager, which answer unsupported-on-testnet,    *)
(* are left out.)  A session whose expiration is the current time is not   *)
(* valid, yet the source accepts it (C2) and the accessors succeed on it.  *)
C8_AccessorsRequireUnlock ==
    (/\ last.op \in {"GetMnemonic"} \cup KeyOps
     /\ ~(last.op \in BitcoinOps /\ m.network = NetworkTestnet))
        => /\ (~last.pre.unlocked /\ last.pre.session # "valid")
                => /\ last.err = ErrLocked
                   /\ last.key = NoKey
                   /\ last.mnemonic = EmptyMnemonic
           /\ (~last.pre.unlocked /\ last.pre.session = "valid")
                => /\ last.err = ""
                   /\ SessionAccepted
                   /\ sessionFile # <<>>
                   /\ last.op = "GetMnemonic"
                        => last.mnemonic = sessionFile[1].mnemonic
                   /\ last.op \in KeyOps
                        => last.key.seed.mnemonic = sessionFile[1].mnemonic
           /\ last.key.kind # "" => last.key.seed.mnemonic # EmptyMnemonic

(* C9: a successful Initialize on a path with no vault leaves the manager  *)
(* unlocked with a 24-word mnemonic, a vault file that decrypts under the  *)
(* password to exactly that mnemonic, and a session file with that         *)
(* mnemonic, the manager's network and an expiration 30 minutes after      *)
(* creation; the vault is persisted before the manager becomes unlocked    *)
(* and before the session is created (so an Initialize that unlocked the   *)
(* manager, successful or not, has left the vault on disk).                *)
C9_InitializeCreatesWallet ==
    /\ (last.op = "Initialize" /\ last.err = "" /\ ~last.pre.vault)
        => /\ m.unlocked
           /\ m.mnemonic.words = 24
           /\ vaultFile # <<>>
           /\ vaultFile[1].json
           /\ Decrypt(UnmarshalVault(vaultFile[1]), last.password)
                = [err |-> FALSE, mnemonic |-> m.mnemonic]
           /\ sessionFile # <<>>
           /\ sessionFile[1].json
           /\ sessionFile[1].mnemonic = m.mnemonic
           /\ sessionFile[1].network = m.network
           /\ sessionFile[1].expiration = now + SessionDuration
           /\ last.log = <<"saveVault", "unlocked", "createSession">>
    /\ (/\ last.op = "Initialize"
        /\ ~last.pre.vault
        /\ ~last.pre.unlocked
        /\ (m.unlocked \/ Logged("createSession")))
        => /\ vaultFile # <<>>
           /\ vaultFile[1].json
           /\ Decrypt(UnmarshalVault(vaultFile[1]), last.password)
                = [err |-> FALSE, mnemonic |-> m.mnemonic]

C9_Witness ==
    /\ last.op = "Initialize"
    /\ last.err = ""
    /\ ~last.pre.vault
    /\ m.unlocked
    /\ sessionFile # <<>>

(* C10: ImportFromMnemonic with a mnemonic that fails BIP-39 validation    *)
(* (wrong word count, unknown word or bad checksum) returns an error and   *)
(* writes no vault, creates no session and does not unlock; with a valid   *)
(* 24-word mnemonic it is never refused as invalid and, unless a write     *)
(* fails, it persists a vault sealing exactly that mnemonic, unlocks the   *)
(* manager and creates a session.                                          *)
C10_ImportValidatesMnemonic ==
    [][last'.op = "ImportFromMnemonic"
        => LET mn == last'.given
               valid24 == mn.words = 24 /\ mn.known /\ mn.sum
               bad == \/ mn.words \notin {12, 15, 18, 21, 24}
                      \/ ~mn.known
                      \/ ~mn.sum
           IN  /\ bad => /\ last'.err = "invalid mnemonic"
                         /\ vaultFile' = vaultFile
                         /\ sessionFile' = sessionFile
                         /\ m' = m
               /\ valid24
                    => last'.err \in {"", "failed to create directory",
                                      "failed to save vault",
                                      "failed to create session"}
               /\ (valid24 /\ last'.err = "")
                    => /\ vaultFile' # <<>>
                       /\ vaultFile'[1].json
                       /\ Decrypt(UnmarshalVault(vaultFile'[1]),
                                  last'.password)
                            = [err |-> FALSE, mnemonic |-> mn]
                       /\ m'.unlocked
                       /\ m'.mnemonic = mn
                       /\ sessionFile' # <<>>
                       /\ sessionFile'[1].json
                       /\ sessionFile'[1].mnemonic = mn]_vars

(* a 24-word phrase with a bad checksum was refused *)
C10_Witness ==
    /\ last.op = "ImportFromMnemonic"
    /\ last.given.words = 24
    /\ last.given.known
    /\ ~last.given.sum
    /\ last.err = "invalid mnemonic"
    /\ ~m.unlocked
    /\ vaultFile = <<>>

(* what a caller and the disk see of an accessor's answer, apart from the  *)
(* key itself                                                              *)
Effects(a) ==
    [err |-> a.err, ok |-> a.ok, m |-> a.m, vaultFile |-> a.vaultFile,
     sessionFile |-> a.sessionFile, log |-> a.log]

(* C11: on a testnet manager GetBitcoinKey and GetBitcoinAddress always    *)
(* return the unsupported-on-testnet error, whatever the lock state, load  *)
(* no session and change nothing; on a mainnet manager they answer, load   *)
(* the session and change the state exactly as GetEthereumKey and          *)
(* GetEthereumAddress do in the same state, and return a Bitcoin key of    *)
(* the same seed.                                                          *)
C11_BitcoinOnTestnet ==
    /\ [][(last'.op \in BitcoinOps /\ m.network = NetworkTestnet)
            => /\ last'.err = ErrTestnet
               /\ last'.log = <<>>
               /\ last'.key = NoKey
               /\ m' = m
               /\ vaultFile' = vaultFile
               /\ sessionFile' = sessionFile]_vars
    /\ [](m.network = NetworkMainnet
            => LET bk == GetBitcoinKey(m, vaultFile, sessionFile, now)
                   ba == GetBitcoinAddress(m, vaultFile, sessionFile, now)
                   ek == GetEthereumKey(m, vaultFile, sessionFile, now)
                   ea == GetEthereumAddress(m, vaultFile, sessionFile, now)
               IN  /\ Effects(bk) = Effects(ek)
                   /\ Effects(ba) = Effects(ea)
                   /\ bk.key.seed = ek.key.seed
                   /\ ba.key.seed = ea.key.seed
                   /\ bk.err = "" => bk.key.chain = "BTC")

(* an unlocked testnet manager with a valid session was refused its        *)
(* Bitcoin key                                                             *)
C11_Witness ==
    /\ last.op = "GetBitcoinKey"
    /\ m.network = NetworkTestnet
    /\ m.unlocked
    /\ last.pre.session = "valid"
    /\ last.err = ErrTestnet

(* ------------- concurrent callers of one Manager (m.mu) --------------- *)
MaxGoroutines == 2

Goroutines == 1..MaxGoroutines

MuOps ==
    {"IsUnlocked", "GetMnemonic", "GetEthereumKey", "GetSolanaKey", "Unlock",
     "Lock", "Initialize"}

(* the lock a handler takes on entry: m.mu.Lock() or m.mu.RLock() *)
LockKind(op) ==
    IF op \in {"IsUnlocked", "Unlock", "Lock", "Initialize"} THEN "Lock"
    ELSE "RLock"

NoWriter == 0
MuFree == [writer |-> NoWriter, readers |-> {}]
Idle == [at |-> "idle", op |-> "", writes |-> FALSE]

(* what the handler running in a goroutine does in the present state *)
MuAnswer(op) ==
    CASE op = "IsUnlocked" -> IsUnlocked(m, vaultFile, sessionFile, now)
      [] op = "GetMnemonic" -> GetMnemonic(m, vaultFile, sessionFile, now)
      [] op = "GetEthereumKey" ->
            GetEthereumKey(m, vaultFile, sessionFile, now)
      [] op = "GetSolanaKey" -> GetSolanaKey(m, vaultFile, sessionFile, now)
      [] op = "Unlock" ->
            Unlock(m, vaultFile, sessionFile, now, "pw1", 1, "ok")
      [] op = "Lock" -> Lock(m, vaultFile, sessionFile)
      [] op = "Initialize" ->
            Initialize(m, vaultFile, sessionFile, now, "pw1", 1, 1, 1, 1,
                       TRUE, "ok", "ok")

(* the handler assigns m.mnemonic, m.password or m.unlocked: in           *)
(* loadSession when it accepts the session, in Unlock, Initialize and Lock *)
Writes(a) ==
    \E i \in 1..Len(a.log) :
        a.log[i] \in {"session accepted", "unlocked", "locked"}

(* a wallet made by an earlier run of the program, and a fresh Manager *)
MuInit ==
    LET made == Initialize(NewManager(<<>>), <<>>, <<>>, 0, "pw1", 1, 1, 1,
                           1, TRUE, "ok", "ok")
    IN  /\ now = 0
        /\ vaultFile = made.vaultFile
        /\ sessionFile = made.sessionFile
        /\ m = NewManager(<<>>)
        /\ last = NoCall
        /\ mu = MuFree
        /\ pc = [g \in Goroutines |-> Idle]
        /\ hd = Parked /\ btc = Parked /\ eth = Parked
        /\ sol = Parked /\ vlt = Parked /\ fan = Parked

(* a goroutine enters a handler: it takes the handler's lock and starts    *)
(* on the body, reading the manager's fields and, by the state it finds,   *)
(* writing them                                                            *)
MuBegin(g, op) ==
    /\ pc[g].at = "idle"
    /\ mu.writer = NoWriter
    /\ LockKind(op) = "Lock" => mu.readers = {}
    /\ mu' = IF LockKind(op) = "Lock" THEN [mu EXCEPT !.writer = g]
             ELSE [mu EXCEPT !.readers = @ \cup {g}]
    /\ pc' = [pc EXCEPT ![g] = [at |-> "body", op |-> op,
                                writes |-> Writes(MuAnswer(op))]]
    /\ UNCHANGED <<walletVars, payVars, auxVars>>

(* the body is done and the deferred unlock runs *)
MuEnd(g) ==
    /\ pc[g].at = "body"
    /\ LET a == MuAnswer(pc[g].op)
       IN  /\ m' = a.m
           /\ vaultFile' = a.vaultFile
           /\ sessionFile' = a.sessionFile
    /\ mu' = IF mu.writer = g THEN [mu EXCEPT !.writer = NoWriter]
             ELSE [mu EXCEPT !.readers = @ \ {g}]
    /\ pc' = [pc EXCEPT ![g] = Idle]
    /\ UNCHANGED <<now, last, payVars, auxVars>>

MuNext ==
    \/ \E g \in Goroutines, op \in MuOps : MuBegin(g, op)
    \/ \E g \in Goroutines : MuEnd(g)

SpecMu == MuInit /\ [][MuNext]_vars

(* C12: every write of the manager's mnemonic, password and unlocked is    *)
(* made by a goroutine that holds the write lock, so that no two           *)
(* goroutines write them at the same time and none writes them while       *)
(* another, holding only the read lock, reads them.  In the source         *)
(* GetMnemonic and the key accessors take the read lock and call           *)
(* loadSession, which assigns m.mnemonic and m.unlocked.                   *)
C12_WritesHoldWriteLock ==
    \A g \in Goroutines :
        (pc[g].at = "body" /\ pc[g].writes)
            => /\ mu.writer = g
               /\ \A h \in Goroutines \ {g} : pc[h].at # "body"

(* C13: the vault file and the session file are written atomically: when   *)
(* saveVault or createSession is cut short, the file holds its complete    *)
(* previous content or the complete new content, never an empty or partly  *)
(* written one.  The source writes with os.WriteFile, which truncates the  *)
(* file in place and then writes: a write that stops midway leaves content *)
(* that does not parse.                                                    *)
C13_AtomicWrites ==
    [][/\ vaultFile' # vaultFile
            => (vaultFile' # <<>> /\ vaultFile'[1].json)
       /\ (sessionFile' # sessionFile /\ sessionFile' # <<>>)
            => sessionFile'[1].json]_vars

(* ------------------ path derivation (wallet/hdwallet.go) -------------- *)
(* The group order n and the HMAC outputs are scaled down: IL ranges over  *)
(* 0..MaxIL, which reaches past the order as a 256-bit IL reaches past the *)
(* secp256k1 order.                                                        *)
CurveOrder == 13
MaxIL == 15
KeyLen == 32
ByteBase == 256

ILs == 0..MaxIL
IRs == {0}

(* big.Int.SetBytes: the big-endian value of a byte string *)
RECURSIVE SetBytes(_)
SetBytes(b) ==
    IF b = <<>> THEN 0
    ELSE SetBytes(SubSeq(b, 1, Len(b) - 1)) * ByteBase + b[Len(b)]

(* big.Int.Bytes: the shortest big-endian byte string of a value *)
RECURSIVE BytesOf(_)
BytesOf(x) ==
    IF x = 0 THEN <<>>
    ELSE Append(BytesOf(x \div ByteBase), x % ByteBase)

(* the left padding with zeros deriveChild applies to a short key *)
Padded(b) ==
    IF Len(b) < KeyLen
    THEN [i \in 1..KeyLen |-> IF i <= KeyLen - Len(b) THEN 0
                              ELSE b[i - (KeyLen - Len(b))]]
    ELSE b

(* a 32-byte slice of an HMAC output holding the value x *)
HashHalf(x) == Padded(BytesOf(x))

(* curve.ScalarBaseMult (go-ethereum's secp256k1, outside the repository)  *)
(* answers a point of the curve.  Its coordinates are numbers below the    *)
(* field prime, too wide for an integer here: x is written as its KeyLen   *)
(* big-endian digits in base 256.  Points are the answers the model draws  *)
(* from: an x that fills all the digits, with an even and with an odd y,   *)
(* and an x whose first digit is zero, as the x of one key in 256 is.      *)
XDigits(zeros) == [i \in 1..KeyLen |-> IF i <= zeros THEN 0 ELSE 200 + zeros]
Points ==
    {[x |-> XDigits(0), odd |-> FALSE], [x |-> XDigits(0), odd |-> TRUE],
     [x |-> XDigits(1), odd |-> FALSE]}

(* big.Int.Bytes of a number given by its digits: no leading zeros *)
RECURSIVE DigitBytes(_)
DigitBytes(digits) ==
    IF digits # <<>> /\ digits[1] = 0 THEN DigitBytes(Tail(digits))
    ELSE digits

(* derivePublicKey; point: what ScalarBaseMult(privateKey) answered *)
derivePublicKey(privateKey, point) ==
    <<IF point.odd THEN 3 ELSE 2>> \o DigitBytes(point.x)

isHardened(childNum) == childNum.hardened

(* binary.BigEndian.PutUint32 of a child number: hardened numbers have the *)
(* top bit set                                                             *)
PutUint32(childNum) ==
    <<(IF childNum.hardened THEN 128 ELSE 0) + childNum.num \div 16777216,
      (childNum.num \div 65536) % ByteBase,
      (childNum.num \div ByteBase) % ByteBase,
      childNum.num % ByteBase>>

(* the data deriveChild hands to hmacSHA512 *)
HmacData(parent, childNum) ==
    (IF isHardened(childNum) THEN <<0>> \o parent.PrivateKey
     ELSE parent.PublicKey) \o PutUint32(childNum)

isValidPrivateKey(privateKey) ==
    /\ Len(privateKey) = KeyLen
    /\ SetBytes(privateKey) # 0
    /\ SetBytes(privateKey) < CurveOrder

HDKey(privateKey, point, chainCode, depth, childNum) ==
    [PrivateKey |-> privateKey,
     PublicKey |-> derivePublicKey(privateKey, point),
     ChainCode |-> chainCode, Depth |-> depth, ChildNum |-> childNum]

NilKey ==
    [PrivateKey |-> <<>>, PublicKey |-> <<>>, ChainCode |-> 0, Depth |-> 0,
     ChildNum |-> [num |-> 0, hardened |-> FALSE]]

(* newMasterKey, with the two halves of HMAC-SHA512("Bitcoin seed", seed) *)
(* and the point of the private key                                        *)
newMasterKey(il, ir, point) ==
    LET privateKey == HashHalf(il)
    IN  IF ~isValidPrivateKey(privateKey)
        THEN [err |-> "invalid private key", key |-> NilKey]
        ELSE [err |-> "",
              key |-> HDKey(privateKey, point, ir, 0,
                            [num |-> 0, hardened |-> FALSE])]

(* deriveChild, with the two halves of HMAC-SHA512(parent.ChainCode, data) *)
(* and the point of the new private key; data: what was hashed             *)
deriveChild(parent, childNum, il, ir, point) ==
    LET data == HmacData(parent, childNum)
        parentPrivateKey == SetBytes(parent.PrivateKey)
        ilInt == SetBytes(HashHalf(il))
        newPrivateKeyInt == (parentPrivateKey + ilInt) % CurveOrder
        newPrivateKey == Padded(BytesOf(newPrivateKeyInt))
    IN  IF newPrivateKeyInt = 0
        THEN [err |-> "invalid private key", key |-> NilKey, data |-> data]
        ELSE [err |-> "", data |-> data,
              key |-> HDKey(newPrivateKey, point, ir, parent.Depth + 1,
                            childNum)]

(* parseChildNum over the parts of a path after "m" *)
PathOf(path) ==
    IF path = BtcDerivationPath
    THEN <<[num |-> 44, hardened |-> TRUE], [num |-> 0, hardened |-> TRUE],
           [num |-> 0, hardened |-> TRUE], [num |-> 0, hardened |-> FALSE],
           [num |-> 0, hardened |-> FALSE]>>
    ELSE <<>>

(* deriveBitcoinKey as it runs: the master key, then one deriveChild for   *)
(* each part of the path; hd.parent and hd.il are what the latest          *)
(* deriveChild was given (hd.childNum: its child number) and hd.data what  *)
(* it hashed                                                               *)
HDInit ==
    /\ hd = [at |-> "start", path |-> PathOf(BtcDerivationPath), i |-> 0,
             key |-> NilKey, err |-> "", parent |-> 0, il |-> 0,
             calls |-> 0, data |-> <<>>,
             childNum |-> [num |-> 0, hardened |-> FALSE]]
    /\ now = 0
    /\ vaultFile = <<>>
    /\ sessionFile = <<>>
    /\ m = NewManager(<<>>)
    /\ last = NoCall
    /\ mu = Parked /\ pc = Parked /\ btc = Parked /\ eth = Parked
    /\ sol = Parked /\ vlt = Parked /\ fan = Parked

HDMaster ==
    /\ hd.at = "start"
    /\ \E il \in ILs, ir \in IRs, point \in Points :
        LET r == newMasterKey(il, ir, point)
        IN  hd' = IF r.err # ""
                  THEN [hd EXCEPT !.at = "failed",
                                  !.err = "failed to create master key"]
                  ELSE [hd EXCEPT !.at = "loop", !.i = 1, !.key = r.key]
    /\ UNCHANGED <<walletVars, muVars, btc, eth, auxVars>>

HDChild ==
    /\ hd.at = "loop"
    /\ hd.i <= Len(hd.path)
    /\ \E il \in ILs, ir \in IRs, point \in Points :
        LET r == deriveChild(hd.key, hd.path[hd.i], il, ir, point)
            given == [hd EXCEPT !.parent = SetBytes(hd.key.PrivateKey),
                                !.il = il, !.calls = @ + 1,
                                !.data = r.data,
                                !.childNum = hd.path[hd.i]]
        IN  hd' = IF r.err # ""
                  THEN [given EXCEPT !.at = "failed", !.key = NilKey,
                                     !.err = "failed to derive child"]
                  ELSE [given EXCEPT !.i = @ + 1, !.key = r.key]
    /\ UNCHANGED <<walletVars, muVars, btc, eth, auxVars>>

HDReturn ==
    /\ hd.at = "loop"
    /\ hd.i > Len(hd.path)
    /\ hd' = [hd EXCEPT !.at = "done"]
    /\ UNCHANGED <<walletVars, muVars, btc, eth, auxVars>>

HDNext == HDMaster \/ HDChild \/ HDReturn

SpecHD == HDInit /\ [][HDNext]_vars

(* C14: deriveChild returns an error whenever (IL + parent key) mod n is 0 *)
(* or IL >= n; otherwise the child key is (IL + parent key) mod n, lies in *)
(* 1..n-1 and is exactly 32 bytes; an error at any step ends the whole     *)
(* derivation with an error and no key.  The source never compares IL      *)
(* with n.                                                                 *)
C14_DeriveChildChecked ==
    /\ hd.calls > 0
        => LET sum == (hd.il + hd.parent) % CurveOrder
           IN  IF sum = 0 \/ hd.il >= CurveOrder
               THEN hd.at = "failed"
               ELSE /\ hd.at # "failed"
                    /\ SetBytes(hd.key.PrivateKey) = sum
                    /\ sum \in 1..(CurveOrder - 1)
                    /\ Len(hd.key.PrivateKey) = KeyLen
    /\ hd.at = "failed" => (hd.err # "" /\ hd.key = NilKey)
    /\ hd.at = "done" => hd.key.Depth = Len(hd.path)

(* ------------- Bitcoin transactions (chains/bitcoin) ------------------ *)
(* Amounts given in BTC (the amount argument and the values the UTXO API   *)
(* reports) are counted in tenths of a satoshi, so that the conversion to  *)
(* satoshis has something to cut off.                                      *)
AmountScale == 10
SatoshisPerBTC == 100000000

(* BTCToSatoshis: int64(btc * 1e8), cut towards zero *)
BTCToSatoshis(amount) == amount \div AmountScale

(* "%.8f" of float64(satoshis) / 100000000.0: whole BTC and eight digits *)
FormatBTC(satoshis) ==
    [whole |-> satoshis \div SatoshisPerBTC,
     digits |-> satoshis % SatoshisPerBTC]

NewTransaction == [Version |-> 2, Inputs |-> <<>>, Outputs |-> <<>>,
                   LockTime |-> 0]

(* Transaction.AddInput: fails when the TxID is not a hash in hex *)
AddInput(tx, utxo) ==
    IF ~utxo.TxID.hex
    THEN [err |-> TRUE, tx |-> tx]
    ELSE [err |-> FALSE,
          tx |-> [tx EXCEPT !.Inputs =
                     Append(@, [Hash |-> utxo.TxID.hash,
                                Index |-> utxo.Vout,
                                Witness |-> <<>>])]]

AddOutput(tx, value, address) ==
    [tx EXCEPT !.Outputs = Append(@, [Value |-> value, PkScript |-> address])]

(* Transaction.EstimateFee *)
EstimateFee(inputCount, outputCount, feeRate) ==
    LET baseSize == 8
        inputSize == 41
        outputSize == 34
        witnessSize == 109
        totalSize == baseSize + (inputCount * inputSize)
                        + (outputCount * outputSize)
                        + (inputCount * witnessSize)
    IN  totalSize * feeRate

(* Transaction.UpdateChangeOutput *)
UpdateChangeOutput(tx, value) ==
    IF Len(tx.Outputs) < 2 THEN tx
    ELSE [tx EXCEPT !.Outputs[Len(tx.Outputs)].Value = value]

(* the witness SignTransaction gives input i *)
WitnessOf(i, utxo, privateKey, address) ==
    <<[sig |-> [key |-> privateKey,
                sighash |-> [idx |-> i, script |-> address,
                             amount |-> utxo.Value]],
       hashType |-> "SigHashAll"],
      [compressed |-> privateKey]>>

(* SignTransaction that signs every input with the value of the first UTXO *)
SignTransaction_FirstValue(tx, utxos, privateKey, address, signOK) ==
    IF Len(tx.Inputs) > Len(utxos) \/ ~signOK
    THEN [err |-> TRUE, tx |-> tx]
    ELSE [err |-> FALSE,
          tx |-> [tx EXCEPT !.Inputs =
                     [i \in 1..Len(tx.Inputs) |->
                        [tx.Inputs[i] EXCEPT !.Witness =
                            WitnessOf(i, utxos[1], privateKey, address)]]]]

(* Transaction.SignTransaction; signOK: the signing calls succeed *)
SignTransaction(tx, utxos, privateKey, address, signOK) ==
    IF Len(tx.Inputs) > Len(utxos) \/ ~signOK
    THEN [err |-> TRUE, tx |-> tx]
    ELSE [err |-> FALSE,
          tx |-> [tx EXCEPT !.Inputs =
                     [i \in 1..Len(tx.Inputs) |->
                        [tx.Inputs[i] EXCEPT !.Witness =
                            WitnessOf(i, utxos[i], privateKey, address)]]]]

(* ----------------------- sendBitcoin (cmd/pay.go) --------------------- *)
MaxUtxos == 2
MaxAmount == 60
MaxFeeRate == 20
DustThreshold == 546
DefaultFeeRate == 10

(* the amounts of a payment, and the values the UTXO API reports, in BTC   *)
(* (tenths of a satoshi)                                                   *)
Amounts == {k * 505 : k \in 0..MaxAmount}
UtxoAmounts == {50000, 20005}

(* the UTXO lists the API may answer with: the k-th UTXO of the address,   *)
(* its TxID a hash in hex or not                                           *)
ApiUtxo(k, amount, hex) ==
    [TxID |-> [hash |-> k, hex |-> hex], Vout |-> 0, Value |-> amount]

ApiUtxoLists ==
    UNION {[1..n -> {ApiUtxo(0, a, h) : a \in UtxoAmounts, h \in BOOLEAN}] :
            n \in 0..MaxUtxos}

(* the k-th entry of a list is the k-th UTXO *)
Numbered(list) ==
    [k \in 1..Len(list) |-> [list[k] EXCEPT !.TxID.hash = k]]

(* the fee rates GetBitcoinFeeEstimate answers with; 0 stands for its error *)
FeeReplies == {0, 1, MaxFeeRate}

Sender == "sender"
Recipient == "recipient"

(* lines 277-289: the UTXOs in satoshis *)
ToUtxos(apiUtxos) ==
    [k \in 1..Len(apiUtxos) |->
        [apiUtxos[k] EXCEPT !.Value = BTCToSatoshis(apiUtxos[k].Value)]]

RECURSIVE TotalInput(_)
TotalInput(utxos) ==
    IF utxos = <<>> THEN 0
    ELSE TotalInput(SubSeq(utxos, 1, Len(utxos) - 1))
            + utxos[Len(utxos)].Value

(* lines 302-307: one AddInput for each UTXO, in order, until one fails *)
RECURSIVE AddInputs(_, _)
AddInputs(tx, utxos) ==
    IF utxos = <<>> THEN [err |-> FALSE, tx |-> tx]
    ELSE LET r == AddInput(tx, Head(utxos))
         IN  IF r.err THEN r ELSE AddInputs(r.tx, Tail(utxos))

(* line 317: the size estimated in line, one output *)
TxSize(numInputs) == 10 + (numInputs * 110) + (1 * 34)

(* FoldDust that never folds *)
FoldDust_Never(change, estimatedFee) ==
    [estimatedFee |-> estimatedFee, change |-> change]

(* lines 325-330: change below the dust threshold goes to the fee *)
FoldDust(change, estimatedFee) ==
    IF change > 0 /\ change < DustThreshold
    THEN [estimatedFee |-> estimatedFee + change, change |-> 0]
    ELSE [estimatedFee |-> estimatedFee, change |-> change]

(* lines 332-351: the change output, the fee for the larger size and the   *)
(* change adjusted to it                                                   *)
ChangeOutput(tx, change, estimatedFee, txSize, feeRate) ==
    LET tx1 == AddOutput(tx, change, Sender)
        newFee == (txSize + 34) * feeRate
        feeIncrease == newFee - estimatedFee
    IN  IF ~(change > 0)
        THEN [tx |-> tx, change |-> change, newFee |-> estimatedFee]
        ELSE IF newFee > estimatedFee /\ change > feeIncrease
        THEN [tx |-> UpdateChangeOutput(tx1, change - feeIncrease),
              change |-> change - feeIncrease, newFee |-> newFee]
        ELSE [tx |-> tx1, change |-> change, newFee |-> newFee]

(* InsufficientFunds that leaves the fee out *)
InsufficientFunds_ValueOnly(totalInput, value, estimatedFee) ==
    totalInput < value

(* line 354 *)
InsufficientFunds(totalInput, value, estimatedFee) ==
    totalInput < value + estimatedFee

(* lines 355-361: the amounts the error reports, in BTC *)
FundsReport(totalInput, value, estimatedFee) ==
    [amount |-> FormatBTC(value), fee |-> FormatBTC(estimatedFee),
     total |-> FormatBTC(value + estimatedFee),
     available |-> FormatBTC(totalInput)]

NoReport == FundsReport(0, 0, 0)

NoPayment ==
    [err |-> "", tx |-> NewTransaction, utxos |-> <<>>, value |-> 0,
     totalInput |-> 0, feeRate |-> 0, fee0 |-> 0, estimatedFee |-> 0,
     change |-> 0, newFee |-> 0, log |-> <<>>, report |-> NoReport]

EarlyOutcomes ==
    {"ok", "invalid Bitcoin address", "failed to get sender address",
     "invalid amount", "failed to get UTXOs"}

LateOutcomes ==
    {"ok", "failed to get private key", "failed to sign transaction",
     "failed to send transaction"}

(* lines 396-417: the key, the signatures, the broadcast *)
SignAndSend(p, late) ==
    LET signed == SignTransaction(p.tx, p.utxos, "key", Sender,
                                  late # "failed to sign transaction")
    IN  IF late = "failed to get private key"
        THEN [p EXCEPT !.err = late, !.log = <<"GetBitcoinKey">>]
        ELSE IF signed.err
        THEN [p EXCEPT !.err = late,
                       !.log = <<"GetBitcoinKey", "SignTransaction">>]
        ELSE [p EXCEPT !.err = IF late = "ok" THEN "" ELSE late,
                       !.tx = signed.tx,
                       !.log = <<"GetBitcoinKey", "SignTransaction",
                                 "Serialize", "SendBitcoinTransaction">>]

(* sendBitcoin, from the parsed amount on.  early: the outcome of parsing  *)
(* the recipient, getting the sender address, parsing the amount and       *)
(* fetching the UTXOs; amount: the BTC to send; apiUtxos and feeReply:     *)
(* what the API answers; late: the outcome of key retrieval, signing and   *)
(* broadcast.                                                              *)
sendBitcoin(early, amount, apiUtxos, feeReply, late) ==
    LET value == BTCToSatoshis(amount)
        utxos == ToUtxos(apiUtxos)
        totalInput == TotalInput(utxos)
        feeRate == IF feeReply = 0 THEN DefaultFeeRate ELSE feeReply
        added == AddInputs(NewTransaction, utxos)
        tx1 == AddOutput(added.tx, value, Recipient)
        txSize == TxSize(Len(utxos))
        fee0 == txSize * feeRate
        folded == FoldDust(totalInput - value - fee0, fee0)
        co == ChangeOutput(tx1, folded.change, folded.estimatedFee, txSize,
                           feeRate)
        p == [NoPayment EXCEPT !.utxos = utxos, !.value = value,
                               !.totalInput = totalInput,
                               !.feeRate = feeRate, !.fee0 = fee0,
                               !.estimatedFee = folded.estimatedFee,
                               !.change = co.change, !.newFee = co.newFee,
                               !.tx = co.tx]
    IN  IF early # "ok" THEN [NoPayment EXCEPT !.err = early]
        ELSE IF Len(apiUtxos) = 0
        THEN [NoPayment EXCEPT !.err = "your Bitcoin wallet has no funds",
                               !.value = value]
        ELSE IF added.err
        THEN [NoPayment EXCEPT !.err = "failed to add input",
                               !.utxos = utxos, !.value = value,
                               !.totalInput = totalInput,
                               !.feeRate = feeRate, !.tx = added.tx]
        ELSE IF InsufficientFunds(totalInput, value, folded.estimatedFee)
        THEN [p EXCEPT !.err = "insufficient funds",
                       !.report = FundsReport(totalInput, value,
                                              folded.estimatedFee)]
        ELSE SignAndSend(p, late)

BtcInit ==
    /\ btc = [early |-> "", amount |-> 0, apiUtxos |-> <<>>, feeReply |-> 0,
              late |-> "", out |-> NoPayment]
    /\ now = 0
    /\ vaultFile = <<>>
    /\ sessionFile = <<>>
    /\ m = NewManager(<<>>)
    /\ last = NoCall
    /\ mu = Parked /\ pc = Parked /\ hd = Parked /\ eth = Parked
    /\ sol = Parked /\ vlt = Parked /\ fan = Parked

(* a run of `odyssey pay btc', from start to exit *)
SendBitcoinAct ==
    /\ btc.early = ""
    /\ \E early \in EarlyOutcomes :
        \E amount \in IF early = "ok" THEN Amounts ELSE {0},
           list \in IF early = "ok" THEN ApiUtxoLists ELSE {<<>>},
           feeReply \in IF early = "ok" THEN FeeReplies ELSE {0},
           late \in IF early = "ok" THEN LateOutcomes ELSE {"ok"} :
            btc' = [early |-> early, amount |-> amount,
                    apiUtxos |-> Numbered(list), feeReply |-> feeReply,
                    late |-> late,
                    out |-> sendBitcoin(early, amount, Numbered(list),
                                        feeReply, late)]
    /\ UNCHANGED <<walletVars, muVars, hd, eth, auxVars>>

BtcNext == SendBitcoinAct

SpecBtc == BtcInit /\ [][BtcNext]_vars

(* reading a run of sendBitcoin *)
BtcReached(e) == \E i \in 1..Len(btc.out.log) : btc.out.log[i] = e
BtcFundsChecked ==
    btc.early = "ok"
        /\ btc.out.err \notin {"your Bitcoin wallet has no funds",
                               "failed to add input"}
BtcChange0 == btc.out.totalInput - btc.out.value - btc.out.fee0
BtcSigned ==
    /\ Len(btc.out.tx.Inputs) > 0
    /\ \A i \in 1..Len(btc.out.tx.Inputs) :
            btc.out.tx.Inputs[i].Witness # <<>>
BtcUnsigned ==
    \A i \in 1..Len(btc.out.tx.Inputs) : btc.out.tx.Inputs[i].Witness = <<>>

C16_DustFolded ==
    /\ BtcFundsChecked
        => LET o == btc.out
               outs == o.tx.Outputs
           IN  /\ outs[1] = [Value |-> o.value, PkScript |-> Recipient]
               /\ (0 < BtcChange0 /\ BtcChange0 < 546)
                    => /\ Len(outs) = 1
                       /\ o.estimatedFee = o.fee0 + BtcChange0
                       /\ o.change = 0
               /\ BtcChange0 >= 546
                    => /\ Len(outs) = 2
                       /\ outs[2].PkScript = Sender
                       /\ outs[2].Value > 0
                       /\ o.estimatedFee = o.fee0
               /\ BtcChange0 <= 0
                    => (Len(outs) = 1 /\ o.estimatedFee = o.fee0)
    /\ FoldDust(100000 - 99500 - 400, 400)
            = [estimatedFee |-> 500, change |-> 0]
    /\ FoldDust(100000 - 50000 - 2000, 2000)
            = [estimatedFee |-> 2000, change |-> 48000]
    /\ \A r \in 1..MaxFeeRate :
        LET co == ChangeOutput(AddOutput(NewTransaction, 50000, Recipient),
                               48000, 2000, TxSize(1), r)
        IN  /\ Len(co.tx.Outputs) = 2
            /\ co.tx.Outputs[2].PkScript = Sender

(* a payment whose change was dust went out with one output *)
C16_Witness ==
    /\ btc.out.err = ""
    /\ 0 < BtcChange0
    /\ BtcChange0 < 546
    /\ Len(btc.out.tx.Outputs) = 1
    /\ btc.out.estimatedFee > btc.out.fee0

(* C17: when a change output is appended the size is estimated once more  *)
(* (34 bytes more) and, whenever the new fee exceeds the first estimate,   *)
(* the change output is reduced by exactly the difference, so that inputs  *)
(* minus outputs is the new fee.  The source reduces the change only when  *)
(* it is larger than the difference.                                       *)
C17_ChangeAdjusted ==
    (BtcFundsChecked /\ Len(btc.out.tx.Outputs) = 2)
        => LET o == btc.out
               outs == o.tx.Outputs
               newFee == (TxSize(Len(o.utxos)) + 34) * o.feeRate
           IN  /\ o.newFee = newFee
               /\ newFee > o.fee0
                    => /\ outs[2].Value = BtcChange0 - (newFee - o.fee0)
                       /\ o.totalInput - (outs[1].Value + outs[2].Value)
                            = newFee

(* C18: the fee for i inputs and o outputs at r satoshis a byte is         *)
(* (10 + 110*i + 34*o) * r, both in line in sendBitcoin and in             *)
(* Transaction.EstimateFee(i, o, r).  EstimateFee counts 8 + 150*i + 34*o  *)
(* bytes.                                                                  *)
C18_FeeEstimatesAgree ==
    BtcFundsChecked
        => LET o == btc.out
               i == Len(o.utxos)
           IN  /\ o.fee0 = (10 + 110 * i + 34 * 1) * o.feeRate
               /\ Len(o.tx.Outputs) = 2
                    => o.newFee = (10 + 110 * i + 34 * 2) * o.feeRate
               /\ EstimateFee(i, 1, o.feeRate) = o.fee0
               /\ Len(o.tx.Outputs) = 2
                    => EstimateFee(i, 2, o.feeRate) = o.newFee

(* C19: the transaction has exactly one input for each fetched UTXO, in    *)
(* the same order; after a successful SignTransaction every input carries  *)
(* a witness of two elements (signature with sighash type, compressed      *)
(* public key) whose signature hash was computed with the value of the     *)
(* UTXO at the same index; if an AddInput fails, nothing is signed or      *)
(* broadcast.                                                              *)
C19_OneInputPerUtxo ==
    LET o == btc.out
        ins == o.tx.Inputs
    IN  /\ BtcFundsChecked
            => /\ Len(ins) = Len(btc.apiUtxos)
               /\ \A i \in 1..Len(ins) :
                    /\ ins[i].Hash = btc.apiUtxos[i].TxID.hash
                    /\ ins[i].Index = btc.apiUtxos[i].Vout
        /\ BtcReached("Serialize")
            => \A i \in 1..Len(ins) :
                    /\ Len(ins[i].Witness) = 2
                    /\ ins[i].Witness[1].hashType = "SigHashAll"
                    /\ ins[i].Witness[1].sig.sighash.idx = i
                    /\ ins[i].Witness[1].sig.sighash.amount
                        = BTCToSatoshis(btc.apiUtxos[i].Value)
                    /\ ins[i].Witness[2] = [compressed |-> "key"]
        /\ (/\ btc.early = "ok"
            /\ \E i \in 1..Len(btc.apiUtxos) : ~btc.apiUtxos[i].TxID.hex)
            => /\ o.err = "failed to add input"
               /\ o.log = <<>>
               /\ BtcUnsigned

(* two UTXOs of different values were spent and signed *)
C19_Witness ==
    /\ btc.out.err = ""
    /\ BtcReached("SendBitcoinTransaction")
    /\ Len(btc.apiUtxos) = 2
    /\ btc.apiUtxos[1].Value # btc.apiUtxos[2].Value
    /\ BtcSigned

(* ---------------------- sendEthereum (cmd/pay.go) --------------------- *)
(* Scaled: an ether is WeiPerEther wei (for 10^18); amounts given in ETH   *)
(* are counted in tenths of a wei; gas figures keep their size.            *)
WeiPerEther == 10000000
MicroEther == 1000000
MaxEthAmount == 6
MaxEthBalance == 6
MaxGasPrice == 10
FallbackGas == 21000
DefaultGas == 50000

(* EtherToWei: ether * 1e18, cut to an integer *)
EtherToWei(ether) == ether \div AmountScale

(* "%.6f" of WeiToEther(wei): the ether rounded to a millionth *)
FormatETH(wei) ==
    LET weiPerMicro == WeiPerEther \div MicroEther
    IN  (wei + weiPerMicro \div 2) \div weiPerMicro

(* the ETH amounts of a payment: steps of 0.05 ETH, and a little more *)
EthAmounts ==
    {k * (WeiPerEther \div 20) * AmountScale + j :
        k \in 0..MaxEthAmount, j \in {0, 7}}

(* the balances the API reports, in wei *)
EthBalances == {k * (WeiPerEther \div 20) : k \in 0..MaxEthBalance}

(* the gas prices the API reports, in wei *)
GasPrices == {0, 1, MaxGasPrice}

(* what GetEthereumGasEstimate returns: a gas figure, or its default with  *)
(* an error                                                                *)
GasReplies ==
    {[gas |-> DefaultGas, err |-> TRUE], [gas |-> DefaultGas, err |-> FALSE],
     [gas |-> 0, err |-> FALSE], [gas |-> 25200, err |-> FALSE]}

(* EstimateGasLimit(nil) *)
EstimateGasLimit == FallbackGas

EthNewTransaction(nonce, to, value, gasLimit, gasPrice) ==
    [Nonce |-> nonce, GasPrice |-> gasPrice, GasLimit |-> gasLimit,
     To |-> to, Value |-> value]

(* ValidateTransaction: the error, "" for nil *)
EthValidateTransaction(tx) ==
    IF tx.Value < 0 THEN "transaction value must be non-negative"
    ELSE IF tx.GasPrice <= 0 THEN "gas price must be positive"
    ELSE IF tx.GasLimit = 0 THEN "gas limit must be greater than 0"
    ELSE ""

(* TotalCost that leaves the gas out *)
TotalCost_NoGas(value, gasPrice, gasLimit) == value

(* lines 151-152: value + gasPrice * int64(gasLimit); every gas figure     *)
(* here is below 2^63, where the conversion keeps the value                *)
TotalCost(value, gasPrice, gasLimit) == value + gasPrice * gasLimit

EthReport(requested, gas, total, available) ==
    [requested |-> FormatETH(requested), gas |-> FormatETH(gas),
     total |-> FormatETH(total), available |-> FormatETH(available)]

NoEthPayment ==
    [err |-> "", tx |-> EthNewTransaction(0, "", 0, 0, 0), value |-> 0,
     balance |-> 0, log |-> <<>>, report |-> EthReport(0, 0, 0, 0)]

EthFetchOutcomes ==
    {"ok", "invalid Ethereum address", "failed to get sender address",
     "invalid amount", "failed to check balance", "failed to get nonce",
     "failed to get gas price"}

EthLateOutcomes ==
    {"ok", "failed to get private key", "failed to sign transaction",
     "failed to send transaction"}

(* sendEthereum, from the parsed amount on.  fetch: which of the calls     *)
(* before the transaction is built fails, if any; amount: the ETH to send; *)
(* balance, fetchedGasPrice, gasReply: what the API answers; late: the     *)
(* outcome of key retrieval, signing and broadcast.                        *)
sendEthereum(fetch, amount, balance, fetchedGasPrice, gasReply, late) ==
    LET value == EtherToWei(amount)
        gasPrice == (fetchedGasPrice * 120) \div 100
        estimatedGas == IF gasReply.err THEN EstimateGasLimit
                        ELSE gasReply.gas
        gasLimit == estimatedGas
        tx == EthNewTransaction(1, Recipient, value, gasLimit, gasPrice)
        maxFee == gasPrice * gasLimit
        totalCost == TotalCost(value, gasPrice, gasLimit)
        p == [NoEthPayment EXCEPT !.value = value, !.balance = balance]
        q == [p EXCEPT !.tx = tx]
    IN  IF fetch \in {"invalid Ethereum address",
                      "failed to get sender address", "invalid amount"}
        THEN [NoEthPayment EXCEPT !.err = fetch]
        ELSE IF fetch = "failed to check balance"
        THEN [NoEthPayment EXCEPT !.err = fetch, !.value = value]
        ELSE IF balance < value
        THEN [p EXCEPT !.err = "insufficient funds",
                       !.report = EthReport(value, 0, 0, balance)]
        ELSE IF fetch # "ok" THEN [p EXCEPT !.err = fetch]
        ELSE IF EthValidateTransaction(tx) # ""
        THEN [q EXCEPT !.err = "invalid transaction"]
        ELSE IF balance < totalCost
        THEN [q EXCEPT !.err = "insufficient funds for transaction with gas",
                       !.report = EthReport(value, maxFee, totalCost,
                                            balance)]
        ELSE IF late = "failed to get private key"
        THEN [q EXCEPT !.err = late, !.log = <<"GetEthereumKey">>]
        ELSE IF late = "failed to sign transaction"
        THEN [q EXCEPT !.err = late,
                       !.log = <<"GetEthereumKey", "SignTransaction">>]
        ELSE [q EXCEPT !.err = IF late = "ok" THEN "" ELSE late,
                       !.log = <<"GetEthereumKey", "SignTransaction",
                                 "SendEthereumTransaction">>]

EthInit ==
    /\ eth = [fetch |-> "", amount |-> 0, balance |-> 0,
              fetchedGasPrice |-> 0,
              gasReply |-> [gas |-> 0, err |-> FALSE], late |-> "",
              out |-> NoEthPayment]
    /\ now = 0
    /\ vaultFile = <<>>
    /\ sessionFile = <<>>
    /\ m = NewManager(<<>>)
    /\ last = NoCall
    /\ mu = Parked /\ pc = Parked /\ hd = Parked /\ btc = Parked
    /\ sol = Parked /\ vlt = Parked /\ fan = Parked

(* a run of `odyssey pay eth', from start to exit *)
SendEthereumAct ==
    /\ eth.fetch = ""
    /\ \E fetch \in EthFetchOutcomes, amount \in EthAmounts,
          balance \in EthBalances :
        \E gp \in IF fetch = "ok" THEN GasPrices ELSE {1},
           gr \in IF fetch = "ok" THEN GasReplies
                  ELSE {[gas |-> DefaultGas, err |-> FALSE]},
           late \in IF fetch = "ok" THEN EthLateOutcomes ELSE {"ok"} :
            eth' = [fetch |-> fetch, amount |-> amount, balance |-> balance,
                    fetchedGasPrice |-> gp, gasReply |-> gr, late |-> late,
                    out |-> sendEthereum(fetch, amount, balance, gp, gr,
                                         late)]
    /\ UNCHANGED <<walletVars, muVars, hd, btc, auxVars>>

EthNext == SendEthereumAct

SpecEth == EthInit /\ [][EthNext]_vars

WordBits == 16
Uint64 == 2 ^ WordBits
SolAmountScale == 10
LamportsPerSOL == 1000
solanaFee == 5000

(* SOLToLamports: the product, truncated towards zero, as an unsigned word *)
SOLToLamports(amount) ==
    ((amount * LamportsPerSOL) \div SolAmountScale) % Uint64

(* the amounts, in tenths of a SOL, a user can type: small ones and the    *)
(* largest ones whose lamport value still fits the word                    *)
MaxSolAmount == ((Uint64 - 1) * SolAmountScale) \div LamportsPerSOL
SolAmounts == {0, 1, 25, 50, MaxSolAmount - 60, MaxSolAmount - 1, MaxSolAmount}
SolBalances == {0, 100, 4000, solanaFee, 7500, 10000, Uint64 - 1}

(* the base58 alphabet of BuildAndSign *)
base58Chars ==
    <<"1", "2", "3", "4", "5", "6", "7", "8", "9", "A", "B", "C", "D", "E",
      "F", "G", "H", "J", "K", "L", "M", "N", "P", "Q", "R", "S", "T", "U",
      "V", "W", "X", "Y", "Z", "a", "b", "c", "d", "e", "f", "g", "h", "i",
      "j", "k", "m", "n", "o", "p", "q", "r", "s", "t", "u", "v", "w", "x",
      "y", "z">>

ContainsRune(c) == \E i \in 1..Len(base58Chars) : base58Chars[i] = c

DigitOf(c) == (CHOOSE i \in 1..Len(base58Chars) : base58Chars[i] = c) - 1

(* base58.Decode of a string of alphabet characters: one zero byte for     *)
(* each leading "1", then the big-endian bytes of the number the rest      *)
(* spells in base 58                                                       *)
RECURSIVE LeadingOnes(_)
LeadingOnes(s) ==
    IF s = <<>> \/ s[1] # "1" THEN 0 ELSE 1 + LeadingOnes(Tail(s))

RECURSIVE Base58Value(_)
Base58Value(s) ==
    IF s = <<>> THEN 0
    ELSE Base58Value(SubSeq(s, 1, Len(s) - 1)) * Len(base58Chars)
            + DigitOf(s[Len(s)])

Base58Decode(s) ==
    LET zeros == LeadingOnes(s)
    IN  [i \in 1..zeros |-> 0]
            \o BytesOf(Base58Value(SubSeq(s, zeros + 1, Len(s))))

HashLength == 32
MinBlockhashChars == 32

(* solana.HashFromBase58: the decoded bytes must be exactly HashLength *)
HashFromBase58(s) ==
    LET b == Base58Decode(s)
    IN  IF Len(b) # HashLength THEN [err |-> TRUE, hash |-> <<>>]
        ELSE [err |-> FALSE, hash |-> b]

(* chains/solana Transaction *)
SolNewTransaction(feePayer) ==
    [Instructions |-> <<>>, Signers |-> <<>>, FeePayer |-> feePayer,
     RecentBlockhash |-> <<>>]

AddTransferInstruction(tx, from, to, amount) ==
    [tx EXCEPT !.Instructions =
        Append(@, [from |-> from, to |-> to, amount |-> amount])]

AddSigner(tx, signer) == [tx EXCEPT !.Signers = Append(@, signer)]

SetRecentBlockhash(tx, blockhash) == [tx EXCEPT !.RecentBlockhash = blockhash]

CreateTransferTransaction(from, to, amount, recentBlockhash) ==
    SetRecentBlockhash(
        AddSigner(AddTransferInstruction(SolNewTransaction(from), from, to,
                                         amount), from),
        recentBlockhash)

NotSigned == [err |-> "", signed |-> <<>>, steps |-> <<>>]

(* Transaction.BuildAndSign.  signOK: whether stx.Sign succeeded.  steps   *)
(* lists the library calls made, in order; signed is the signed            *)
(* transaction, <<>> when none was produced.                               *)
BuildAndSign_NoLengthCheck(tx, signOK) ==
    LET bh == tx.RecentBlockhash
        parsed == HashFromBase58(bh)
    IN  IF bh = <<>> THEN [NotSigned EXCEPT !.err = "blockhash is empty"]
        ELSE IF \E i \in 1..Len(bh) : ~ContainsRune(bh[i])
        THEN [NotSigned EXCEPT
                !.err = "blockhash contains invalid base58 character"]
        ELSE IF parsed.err
        THEN [NotSigned EXCEPT !.err = "invalid blockhash format",
                               !.steps = <<"HashFromBase58">>]
        ELSE IF tx.Instructions = <<>>
        THEN [NotSigned EXCEPT !.err = "failed to create transaction",
                               !.steps = <<"HashFromBase58",
                                           "NewTransaction">>]
        ELSE IF tx.Signers = <<>>
        THEN [NotSigned EXCEPT !.err = "no signers provided for transaction",
                               !.steps = <<"HashFromBase58",
                                           "NewTransaction">>]
        ELSE IF ~signOK
        THEN [NotSigned EXCEPT !.err = "failed to sign transaction",
                               !.steps = <<"HashFromBase58",
                                           "NewTransaction", "Sign">>]
        ELSE [err |-> "",
              signed |-> <<[instructions |-> tx.Instructions,
                            blockhash |-> parsed.hash,
                            payer |-> tx.FeePayer,
                            signatures |-> tx.Signers]>>,
              steps |-> <<"HashFromBase58", "NewTransaction", "Sign",
                          "MarshalBinary">>]

BuildAndSign(tx, signOK) ==
    LET bh == tx.RecentBlockhash
        parsed == HashFromBase58(bh)
    IN  IF bh = <<>> THEN [NotSigned EXCEPT !.err = "blockhash is empty"]
        ELSE IF \E i \in 1..Len(bh) : ~ContainsRune(bh[i])
        THEN [NotSigned EXCEPT
                !.err = "blockhash contains invalid base58 character"]
        ELSE IF Len(bh) < MinBlockhashChars
        THEN [NotSigned EXCEPT !.err = "blockhash is too short"]
        ELSE IF parsed.err
        THEN [NotSigned EXCEPT !.err = "invalid blockhash format",
                               !.steps = <<"HashFromBase58">>]
        ELSE IF tx.Instructions = <<>>
        THEN [NotSigned EXCEPT !.err = "failed to create transaction",
                               !.steps = <<"HashFromBase58",
                                           "NewTransaction">>]
        ELSE IF tx.Signers = <<>>
        THEN [NotSigned EXCEPT !.err = "no signers provided for transaction",
                               !.steps = <<"HashFromBase58",
                                           "NewTransaction">>]
        ELSE IF ~signOK
        THEN [NotSigned EXCEPT !.err = "failed to sign transaction",
                               !.steps = <<"HashFromBase58",
                                           "NewTransaction", "Sign">>]
        ELSE [err |-> "",
              signed |-> <<[instructions |-> tx.Instructions,
                            blockhash |-> parsed.hash,
                            payer |-> tx.FeePayer,
                            signatures |-> tx.Signers]>>,
              steps |-> <<"HashFromBase58", "NewTransaction", "Sign",
                          "MarshalBinary">>]

(* blockhashes the RPC can answer: runs of "1" followed by a short tail *)
MaxOnes == 33
Ones(n) == [i \in 1..n |-> "1"]
BlockhashTails ==
    {<<>>, <<"2">>, <<"0">>, <<"O">>, <<"a", "b", "c">>, <<"z", "z">>,
     <<"2", "1">>}
Blockhashes ==
    {Ones(n) \o t : n \in {0} \cup ((MaxOnes - 4)..MaxOnes),
                    t \in BlockhashTails}

SolSender == "sender"
SolRecipient == "recipient"

NoSolPayment ==
    [err |-> "", value |-> 0, balance |-> 0, requiredBalance |-> 0,
     log |-> <<>>, sign |-> NotSigned]

SolEarlyOutcomes ==
    {"ok", "invalid Solana address", "invalid amount",
     "failed to get sender address", "failed to check balance"}

SolLateOutcomes ==
    {"ok", "failed to get private key", "failed to get blockhash",
     "failed to send transaction"}

(* sendSolana.  early: which of the calls up to the balance fetch fails,   *)
(* if any; amount: the SOL to send, in tenths; balance: what the API       *)
(* answers; late: the outcome of key retrieval, blockhash fetch and        *)
(* broadcast; recentBlockhash: the blockhash the RPC answers; signOK:      *)
(* whether signing succeeds.                                               *)
sendSolana(early, amount, balance, late, recentBlockhash, signOK) ==
    LET value == SOLToLamports(amount)
        requiredBalance == (value + solanaFee) % Uint64
        p == [NoSolPayment EXCEPT !.value = value, !.balance = balance,
                                  !.requiredBalance = requiredBalance]
        tx == CreateTransferTransaction(SolSender, SolRecipient, value, <<>>)
        r == BuildAndSign(SetRecentBlockhash(tx, recentBlockhash), signOK)
    IN  IF early \in {"invalid Solana address", "invalid amount"}
        THEN [NoSolPayment EXCEPT !.err = early]
        ELSE IF early # "ok"
        THEN [NoSolPayment EXCEPT !.err = early, !.value = value]
        ELSE IF balance < requiredBalance
        THEN [p EXCEPT !.err = "insufficient funds"]
        ELSE IF late = "failed to get private key"
        THEN [p EXCEPT !.err = late, !.log = <<"GetSolanaKey">>]
        ELSE IF late = "failed to get blockhash"
        THEN [p EXCEPT !.err = late,
                       !.log = <<"GetSolanaKey", "GetSolanaRecentBlockhash">>]
        ELSE IF r.err # ""
        THEN [p EXCEPT !.err = "failed to sign transaction",
                       !.log = <<"GetSolanaKey", "GetSolanaRecentBlockhash",
                                 "BuildAndSign">>,
                       !.sign = r]
        ELSE [p EXCEPT !.err = IF late = "ok" THEN "" ELSE late,
                       !.log = <<"GetSolanaKey", "GetSolanaRecentBlockhash",
                                 "BuildAndSign", "SendSolanaTransaction">>,
                       !.sign = r]

SolInit ==
    /\ sol = [early |-> "", amount |-> 0, balance |-> 0, late |-> "",
              recentBlockhash |-> <<>>, signOK |-> TRUE,
              out |-> NoSolPayment]
    /\ now = 0
    /\ vaultFile = <<>>
    /\ sessionFile = <<>>
    /\ m = NewManager(<<>>)
    /\ last = NoCall
    /\ mu = Parked /\ pc = Parked
    /\ hd = Parked /\ btc = Parked /\ eth = Parked
    /\ vlt = Parked /\ fan = Parked

(* a run of `odyssey pay sol', from start to exit *)
SendSolanaAct ==
    /\ sol.early = ""
    /\ \E early \in SolEarlyOutcomes, amount \in SolAmounts,
          balance \in SolBalances :
        \E late \in IF early = "ok" THEN SolLateOutcomes ELSE {"ok"} :
            \E bh \in IF early = "ok"
                          /\ late \in {"ok", "failed to send transaction"}
                       THEN Blockhashes ELSE {<<>>},
               signOK \in IF early = "ok" /\ late = "ok" THEN BOOLEAN
                          ELSE {TRUE} :
                sol' = [early |-> early, amount |-> amount,
                        balance |-> balance, late |-> late,
                        recentBlockhash |-> bh, signOK |-> signOK,
                        out |-> sendSolana(early, amount, balance, late, bh,
                                           signOK)]
    /\ UNCHANGED <<walletVars, muVars, payVars, vlt, fan>>

SolNext == SendSolanaAct

SpecSol == SolInit /\ [][SolNext]_vars

(* C21: sendSolana reaches key retrieval, blockhash fetch, signing or      *)
(* broadcast only if balance >= value + 5000, the sum taken as integers    *)
(* with no wrap at the word size; when the balance is smaller and the      *)
(* balance was fetched, it returns an insufficient-funds error and nothing *)
(* is signed.  In the source the sum is a uint64 sum: for a value within   *)
(* 5000 of the largest word it wraps to a small required balance.          *)
C21_BalanceCoversValueAndFee ==
    LET o == sol.out
        value == SOLToLamports(sol.amount)
    IN  /\ o.log # <<>> => sol.balance >= value + solanaFee
        /\ (sol.early = "ok" /\ sol.balance < value + solanaFee)
            => /\ o.err = "insufficient funds"
               /\ o.log = <<>>
               /\ o.sign.signed = <<>>

SolSignCalled == Len(sol.out.log) >= 3 /\ sol.out.log[3] = "BuildAndSign"

(* C22: BuildAndSign returns an error and no signed transaction when the   *)
(* blockhash is empty, holds a character outside the base58 alphabet, or   *)
(* has fewer than 32 characters ("abc" is refused for its format); it      *)
(* refuses them before it parses the hash, assembles the transaction or    *)
(* signs; a blockhash of base58 characters, at least 32 of them, that      *)
(* decodes to 32 bytes passes these checks and, when signing succeeds, is  *)
(* the blockhash of the signed transaction.                                *)
C22_BlockhashValidated ==
    LET bh == sol.recentBlockhash
        r == sol.out.sign
        foreign == \E i \in 1..Len(bh) : bh[i] \in {"0", "O", "I", "l"}
        format == {"blockhash is empty",
                   "blockhash contains invalid base58 character",
                   "blockhash is too short"}
    IN  SolSignCalled
            => /\ bh = <<>> => r.err = "blockhash is empty"
               /\ foreign
                    => r.err = "blockhash contains invalid base58 character"
               /\ (bh # <<>> /\ ~foreign /\ Len(bh) < 32)
                    => r.err = "blockhash is too short"
               /\ bh = <<"a", "b", "c">> => r.err \in format
               /\ r.err \in format => r.steps = <<>>
               /\ r.err # "" => /\ r.signed = <<>>
                                /\ sol.out.err = "failed to sign transaction"
                                /\ Len(sol.out.log) = 3
               /\ (/\ ~foreign
                   /\ Len(bh) >= 32
                   /\ Len(Base58Decode(bh)) = 32)
                    => /\ r.err \notin format
                       /\ r.steps # <<>>
                       /\ r.steps[1] = "HashFromBase58"
                       /\ sol.signOK
                            => /\ r.err = ""
                               /\ Len(r.signed) = 1
                               /\ r.signed[1].blockhash = Base58Decode(bh)
                               /\ r.signed[1].instructions[1].amount
                                    = sol.out.value

(* the blockhash "abc" was refused before anything was parsed or signed *)
C22_Witness ==
    /\ SolSignCalled
    /\ sol.recentBlockhash = <<"a", "b", "c">>
    /\ sol.out.sign.err = "blockhash is too short"
    /\ sol.out.sign.steps = <<>>
    /\ sol.out.sign.signed = <<>>

(* ------------------- the vault by itself (crypto/vault.go) ------------ *)
(* A vault is made with NewVault, may be written with saveVault and read   *)
(* back with loadVault, may have bits of its ciphertext or of its nonce    *)
(* flipped (vlt.flips: some bit was flipped), and is then opened with      *)
(* Decrypt and ValidatePassword.  The nonce has NonceBits bits and the     *)
(* ciphertext CipherBits bits.                                             *)
NonceBits == 2
CipherBits == 2

VltMnemonics == ImportMnemonics \cup {EmptyMnemonic}
VltPasswords == Passwords \cup {""}
VltSalts == {1, 2}
VltNonces == 0..(2 ^ NonceBits - 1)

(* the number x with bit i flipped *)
FlipBit(x, i) ==
    IF (x \div (2 ^ i)) % 2 = 0 THEN x + 2 ^ i ELSE x - 2 ^ i

(* the ciphertext with bit i flipped *)
FlipCipher(data, i) ==
    [data EXCEPT !.flipped = IF i \in @ THEN @ \ {i} ELSE @ \cup {i}]

NotOpened == [err |-> FALSE, mnemonic |-> EmptyMnemonic]

VltUntried(v) == [v EXCEPT !.tried = FALSE, !.out = NotOpened, !.valid = FALSE]

VltInit ==
    /\ vlt = [at |-> "start", M |-> EmptyMnemonic, Pw |-> "", salt |-> 0,
              nonce |-> 0, made |-> <<>>, vault |-> <<>>, file |-> <<>>,
              loaded |-> FALSE, flips |-> FALSE, tried |-> FALSE,
              password |-> "",
              out |-> NotOpened, valid |-> FALSE]
    /\ now = 0
    /\ vaultFile = <<>>
    /\ sessionFile = <<>>
    /\ m = NewManager(<<>>)
    /\ last = NoCall
    /\ mu = Parked /\ pc = Parked
    /\ hd = Parked /\ btc = Parked /\ eth = Parked
    /\ sol = Parked /\ fan = Parked

VltNewVault ==
    /\ vlt.at = "start"
    /\ \E mnemonic \in VltMnemonics, password \in VltPasswords,
          salt \in VltSalts, nonce \in VltNonces :
        LET v == NewVault(mnemonic, password, salt, nonce)
        IN  vlt' = [vlt EXCEPT !.at = "made", !.M = mnemonic,
                               !.Pw = password, !.salt = salt,
                               !.nonce = nonce, !.made = <<v>>,
                               !.vault = <<v>>]
    /\ UNCHANGED <<walletVars, muVars, payVars, sol, fan>>

VltSave ==
    /\ vlt.at = "made"
    /\ ~vlt.loaded
    /\ vlt.vault = vlt.made
    /\ \E outcome \in WriteOutcomes :
        vlt' = [VltUntried(vlt) EXCEPT
                    !.file = saveVault(vlt.file, vlt.vault[1],
                                       outcome).vaultFile]
    /\ UNCHANGED <<walletVars, muVars, payVars, sol, fan>>

VltLoad ==
    /\ vlt.at = "made"
    /\ ~vlt.loaded
    /\ LET r == loadVault(vlt.file)
       IN  /\ ~r.err
           /\ vlt' = [VltUntried(vlt) EXCEPT !.vault = r.vault,
                                             !.loaded = TRUE]
    /\ UNCHANGED <<walletVars, muVars, payVars, sol, fan>>

VltFlipCipherBit ==
    /\ vlt.at = "made"
    /\ \E i \in 0..(CipherBits - 1) :
        vlt' = [VltUntried(vlt) EXCEPT
                    !.vault[1].Data = FlipCipher(@, i), !.flips = TRUE]
    /\ UNCHANGED <<walletVars, muVars, payVars, sol, fan>>

VltFlipNonceBit ==
    /\ vlt.at = "made"
    /\ \E i \in 0..(NonceBits - 1) :
        vlt' = [VltUntried(vlt) EXCEPT !.vault[1].Nonce = FlipBit(@, i),
                                       !.flips = TRUE]
    /\ UNCHANGED <<walletVars, muVars, payVars, sol, fan>>

VltDecrypt ==
    /\ vlt.at = "made"
    /\ \E password \in VltPasswords :
        vlt' = [vlt EXCEPT !.tried = TRUE, !.password = password,
                           !.out = Decrypt(vlt.vault[1], password),
                           !.valid = ValidatePassword(vlt.vault[1],
                                                      password)]
    /\ UNCHANGED <<walletVars, muVars, payVars, sol, fan>>

VltNext ==
    \/ VltNewVault
    \/ VltSave
    \/ VltLoad
    \/ VltFlipCipherBit
    \/ VltFlipNonceBit
    \/ VltDecrypt

SpecVlt == VltInit /\ [][VltNext]_vars

C24_TamperDetected ==
    vlt.tried
        => /\ (\/ vlt.vault[1].Data # vlt.made[1].Data
               \/ vlt.vault[1].Nonce # vlt.made[1].Nonce
               \/ vlt.password # vlt.Pw)
                => /\ vlt.out.err
                   /\ vlt.out.mnemonic = EmptyMnemonic
           /\ vlt.valid <=> ~vlt.out.err

(* a vault with one nonce bit flipped was refused under the right password *)
C24_Witness ==
    /\ vlt.tried
    /\ vlt.password = vlt.Pw
    /\ vlt.vault[1].Data = vlt.made[1].Data
    /\ vlt.vault[1].Nonce # vlt.made[1].Nonce
    /\ vlt.out.err
    /\ ~vlt.valid

(* C25: when Initialize, ImportFromMnemonic or Unlock returns an error,    *)
(* whatever the reason (a session file that could not be written          *)
(* included), the call has not unlocked the manager nor put a mnemonic in  *)
(* its memory, and it has neither created nor replaced the vault file.  In *)
(* the source the three set m.mnemonic and m.unlocked before they call     *)
(* createSession, after saveVault has written the vault file, and return   *)
(* createSession's error as it is.                                         *)
C25_ErrorMeansNoTransition ==
    [][(/\ last'.op \in {"Initialize", "ImportFromMnemonic", "Unlock"}
        /\ last'.err # "")
            => /\ m'.unlocked => m.unlocked
               /\ m'.mnemonic = m.mnemonic
               /\ vaultFile' = vaultFile]_vars

(* C26: in every transaction sendBitcoin signs, a change output is absent  *)
(* or worth at least 546 satoshis, also after the fee adjustment has       *)
(* reduced the change.  In the source the dust test comes before the       *)
(* adjustment, which then takes 34 bytes' fee off the change and does not  *)
(* test the result.                                                        *)
C26_NoDustChange ==
    BtcSigned
        => \/ Len(btc.out.tx.Outputs) = 1
           \/ /\ Len(btc.out.tx.Outputs) = 2
              /\ btc.out.tx.Outputs[2].Value >= 546

RECURSIVE OutputSum(_)
OutputSum(outputs) ==
    IF outputs = <<>> THEN 0
    ELSE outputs[1].Value + OutputSum(Tail(outputs))

(* Transaction.CalculateFee *)
CalculateFee(inputValue, outputValue) == inputValue - outputValue

(* C27: where sendBitcoin checks the funds, shows the details and signs,   *)
(* totalInput = value + change output (0 if none) + estimatedFee: the fee  *)
(* shown and used in the funds check is the fee the signed transaction     *)
(* pays, inputs minus outputs; and every output value is positive.  In the *)
(* source the adjustment lowers the change output by the fee increase and  *)
(* leaves estimatedFee as it was, and nothing refuses an amount of zero.   *)
C27_ReportedFeeIsPaidFee ==
    LET o == btc.out
    IN  o.log # <<>>
            => /\ CalculateFee(o.totalInput, OutputSum(o.tx.Outputs))
                    = o.estimatedFee
               /\ \A i \in 1..Len(o.tx.Outputs) : o.tx.Outputs[i].Value > 0

(* C28: for every valid private key derivePublicKey returns exactly 33     *)
(* bytes, a 0x02 or 0x03 parity prefix and the X coordinate left-padded to *)
(* 32 bytes, so that deriveChild hashes exactly 37 bytes for a             *)
(* non-hardened child (the compressed parent public key, then the index as *)
(* 4 big-endian bytes) and 0x00, the 32-byte parent private key and the    *)
(* index for a hardened one.  In the source derivePublicKey appends        *)
(* x.Bytes(), which has no leading zeros, and pads nothing.                *)
C28_PublicKeyIs33Bytes ==
    /\ hd.key # NilKey
        => /\ isValidPrivateKey(hd.key.PrivateKey)
           /\ Len(hd.key.PublicKey) = 33
           /\ hd.key.PublicKey[1] \in {2, 3}
    /\ hd.calls > 0
        => /\ Len(hd.data) = 37
           /\ SubSeq(hd.data, 34, 37) = PutUint32(hd.childNum)
           /\ IF isHardened(hd.childNum)
              THEN /\ hd.data[1] = 0
                   /\ SubSeq(hd.data, 2, 33) = Padded(BytesOf(hd.parent))
                   /\ hd.data[34] >= 128
              ELSE /\ hd.data[1] \in {2, 3}
                   /\ hd.data[34] < 128

(* ------------- several Managers over the same files (part_007) -------- *)
(* Two Manager objects built on the same vault path and session path, as   *)
(* two invocations of the program are, call Initialize,                    *)
(* ImportFromMnemonic, Unlock and Lock one after the other; either may be  *)
(* replaced by a new Manager on either network (`odyssey network <n>').    *)
(* Every file write succeeds.  In this specification m maps each of the    *)
(* two to its Manager.                                                     *)
Managers == {"a", "b"}
SharedPassword == "pw1"
SharedMnemonics == {Mn(1, 12, TRUE, TRUE)}
SharedEntropies == {1}

SharedInit ==
    /\ now = 0
    /\ vaultFile = <<>>
    /\ sessionFile = <<>>
    /\ m = [g \in Managers |-> NewManager(<<>>)]
    /\ last = NoCall
    /\ mu = Parked /\ pc = Parked
    /\ hd = Parked /\ btc = Parked /\ eth = Parked
    /\ sol = Parked /\ vlt = Parked /\ fan = Parked

(* a call of handler op by manager g with answer a *)
SharedCall(g, op, a) ==
    /\ m' = [m EXCEPT ![g] = a.m]
    /\ vaultFile' = a.vaultFile
    /\ sessionFile' = a.sessionFile
    /\ last' = [NoCall EXCEPT !.op = op, !.err = a.err, !.ok = a.ok,
                              !.log = a.log]
    /\ UNCHANGED <<now, muVars, payVars, auxVars>>

SharedTick ==
    /\ now < MaxNow
    /\ \E t \in Instants : t > now /\ now' = t
    /\ last' = [NoCall EXCEPT !.op = "Tick"]
    /\ UNCHANGED <<vaultFile, sessionFile, m, muVars, payVars, auxVars>>

SharedNewManager ==
    \E g \in Managers, n \in Networks :
        /\ m' = [m EXCEPT ![g] = NewManager(<<n>>)]
        /\ last' = [NoCall EXCEPT !.op = "NewManager"]
        /\ UNCHANGED <<now, vaultFile, sessionFile, muVars, payVars,
                       auxVars>>

SharedInitialize ==
    \E g \in Managers, e \in SharedEntropies, s \in Salts, n \in Nonces,
       k \in Tokens :
        SharedCall(g, "Initialize",
                   Initialize(m[g], vaultFile, sessionFile, now,
                              SharedPassword, e, s, n, k, TRUE, "ok", "ok"))

SharedImport ==
    \E g \in Managers, mn \in SharedMnemonics, s \in Salts, n \in Nonces,
       k \in Tokens :
        SharedCall(g, "ImportFromMnemonic",
                   ImportFromMnemonic(m[g], vaultFile, sessionFile, now, mn,
                                      SharedPassword, s, n, k, TRUE, "ok",
                                      "ok"))

SharedUnlock ==
    \E g \in Managers, k \in Tokens :
        SharedCall(g, "Unlock",
                   Unlock(m[g], vaultFile, sessionFile, now, SharedPassword,
                          k, "ok"))

SharedLock ==
    \E g \in Managers :
        SharedCall(g, "Lock", Lock(m[g], vaultFile, sessionFile))

SharedNext ==
    \/ SharedTick
    \/ SharedNewManager
    \/ SharedInitialize
    \/ SharedImport
    \/ SharedUnlock
    \/ SharedLock

SpecShared == SharedInit /\ [][SharedNext]_vars

(* the mnemonic sealed in the vault file *)
SealedMnemonic(vf) == UnmarshalVaultData(vf[1].data.pt).data.mnemonic

(* C29: after any sequence of Initialize, ImportFromMnemonic, Unlock, Lock *)
(* and network switches by Managers on the same vault and session paths,   *)
(* with every file write succeeding: whenever the session file on disk is  *)
(* unexpired, its mnemonic is the one sealed in the vault file on disk.    *)
(* In the source a Manager keeps the vault it once loaded or made          *)
(* (m.vault) and Unlock prefers it to the vault file: after another        *)
(* Manager has replaced the vault file, Unlock opens the old vault and     *)
(* writes a session with the old mnemonic.                                 *)
C29_SessionMatchesVault ==
    (/\ sessionFile # <<>>
     /\ sessionFile[1].json
     /\ ~After(now, sessionFile[1].expiration))
        => /\ vaultFile # <<>>
           /\ sessionFile[1].mnemonic = SealedMnemonic(vaultFile)

(* ------- odyssey transactions: the parallel fetch (part_002) ---------- *)
(* showAllTransactionsPaginated starts one goroutine for each chain, each  *)
(* of which starts a goroutine for the fetch and waits for its answer or   *)
(* for the 60-second timeout, a goroutine that closes the result channel   *)
(* once the wait group is at zero, and then ranges over the channel.       *)
(* fan.chain[c], fan.inner[c], fan.closer and fan.main are the positions   *)
(* of the goroutines; fan.ch is the buffer of resultChan.                  *)
Chains == <<"ethereum", "bitcoin", "solana">>
ChainSet == {Chains[i] : i \in 1..Len(Chains)}
ResultChanCap == 3

ChainResult(chain, error) == [Chain |-> chain, Error |-> error]

(* manager.IsTestnet *)
IsTestnet(network) == network = NetworkTestnet

(* whether main starts the goroutine of chain c: line 155 *)
Launches(c, network) == c # "bitcoin" \/ ~IsTestnet(network)

(* wg.Wait returns *)
WaitReturns_AtOnce(wg) == TRUE

WaitReturns(wg) == wg = 0

(* resultChan <- r by the goroutine of chain c: a send on a closed channel *)
(* panics, a send on a full one blocks                                     *)
CanSend(f) == f.closed \/ Len(f.ch) < ResultChanCap

Send(f, c, r) ==
    IF f.closed THEN [f EXCEPT !.panic = TRUE, !.chain[c] = "exit"]
    ELSE [f EXCEPT !.ch = Append(@, r), !.sent[c] = @ + 1,
                   !.chain[c] = "exit"]

FanInit ==
    /\ \E n \in Networks :
        fan = [network |-> n, main |-> 1, wg |-> 0, ch |-> <<>>,
               closed |-> FALSE, closer |-> "none", panic |-> FALSE,
               chain |-> [c \in ChainSet |-> "none"],
               inner |-> [c \in ChainSet |-> "none"],
               txChan |-> [c \in ChainSet |-> 0],
               errChan |-> [c \in ChainSet |-> 0],
               expired |-> [c \in ChainSet |-> FALSE],
               fetchErr |-> [c \in ChainSet |-> ""],
               sent |-> [c \in ChainSet |-> 0],
               results |-> [c \in ChainSet |-> <<>>],
               received |-> 0]
    /\ now = 0
    /\ vaultFile = <<>>
    /\ sessionFile = <<>>
    /\ m = NewManager(<<>>)
    /\ last = NoCall
    /\ mu = Parked /\ pc = Parked
    /\ hd = Parked /\ btc = Parked /\ eth = Parked
    /\ sol = Parked /\ vlt = Parked

FanStep(f) ==
    /\ fan' = f
    /\ UNCHANGED <<walletVars, muVars, payVars, sol, vlt>>

(* lines 104-106, 155-157, 207-208: wg.Add(1) and the go statement *)
MainLaunch ==
    /\ fan.main <= Len(Chains)
    /\ LET c == Chains[fan.main]
       IN  FanStep(IF Launches(c, fan.network)
                   THEN [fan EXCEPT !.main = @ + 1, !.wg = @ + 1,
                                    !.chain[c] = "address"]
                   ELSE [fan EXCEPT !.main = @ + 1])

(* lines 257-260: the go statement of the closing goroutine *)
MainGoCloser ==
    /\ fan.main = Len(Chains) + 1
    /\ FanStep([fan EXCEPT !.main = @ + 1, !.closer = "wait"])

(* lines 264-266: one iteration of the range loop *)
MainReceive ==
    /\ fan.main = Len(Chains) + 2
    /\ fan.ch # <<>>
    /\ FanStep([fan EXCEPT !.ch = Tail(@),
                           !.results[Head(fan.ch).Chain] = <<Head(fan.ch)>>,
                           !.received = @ + 1])

(* the range loop ends: the channel is closed and empty *)
MainRangeEnd ==
    /\ fan.main = Len(Chains) + 2
    /\ fan.ch = <<>>
    /\ fan.closed
    /\ FanStep([fan EXCEPT !.main = @ + 1])

(* lines 108-112: the address *)
ChainAddress(c) ==
    /\ fan.chain[c] = "address"
    /\ \E ok \in BOOLEAN :
        FanStep([fan EXCEPT !.chain[c] = IF ok THEN "fetch"
                                         ELSE "send address error"])

(* line 110: the result of a failed address *)
ChainSendError(c) ==
    /\ fan.chain[c] = "send address error"
    /\ CanSend(fan)
    /\ FanStep(Send(fan, c, ChainResult(c, "address")))

(* lines 115-130: the context, the two channels, the go statement *)
ChainFetch(c) ==
    /\ fan.chain[c] = "fetch"
    /\ FanStep([fan EXCEPT !.chain[c] = "select", !.inner[c] = "running"])

(* lines 123-130: the fetch answers, with transactions or with an error;   *)
(* both channels have room for the one value                               *)
InnerAnswer(c) ==
    /\ fan.inner[c] = "running"
    /\ \E ok \in BOOLEAN :
        FanStep(IF ok THEN [fan EXCEPT !.inner[c] = "done",
                                        !.txChan[c] = @ + 1]
                ELSE [fan EXCEPT !.inner[c] = "done", !.errChan[c] = @ + 1])

(* the 60 seconds of the context are over *)
ContextDone(c) ==
    /\ fan.chain[c] = "select"
    /\ ~fan.expired[c]
    /\ FanStep([fan EXCEPT !.expired[c] = TRUE])

(* lines 136-143: select takes one of the cases that are ready *)
ChainSelect(c) ==
    /\ fan.chain[c] = "select"
    /\ \/ /\ fan.txChan[c] > 0
          /\ FanStep([fan EXCEPT !.txChan[c] = @ - 1, !.chain[c] = "send"])
       \/ /\ fan.errChan[c] > 0
          /\ FanStep([fan EXCEPT !.errChan[c] = @ - 1,
                                 !.fetchErr[c] = "fetch",
                                 !.chain[c] = "send"])
       \/ /\ fan.expired[c]
          /\ FanStep([fan EXCEPT !.fetchErr[c] = "timeout",
                                 !.chain[c] = "send"])

(* lines 145-151: the result of the fetch *)
ChainSend(c) ==
    /\ fan.chain[c] = "send"
    /\ CanSend(fan)
    /\ FanStep(Send(fan, c, ChainResult(c, fan.fetchErr[c])))

(* the deferred cancel and wg.Done *)
ChainDone(c) ==
    /\ fan.chain[c] = "exit"
    /\ FanStep([fan EXCEPT !.chain[c] = "done", !.wg = @ - 1])

(* lines 258-259: wg.Wait returns and the channel is closed *)
CloserClose ==
    /\ fan.closer = "wait"
    /\ WaitReturns(fan.wg)
    /\ FanStep([fan EXCEPT !.closer = "done", !.closed = TRUE])

ChainStep(c) ==
    \/ ChainAddress(c)
    \/ ChainSendError(c)
    \/ ChainFetch(c)
    \/ ChainSelect(c)
    \/ ChainSend(c)
    \/ ChainDone(c)

FanNext ==
    \/ MainLaunch
    \/ MainGoCloser
    \/ MainReceive
    \/ MainRangeEnd
    \/ CloserClose
    \/ \E c \in ChainSet : ChainAddress(c)
    \/ \E c \in ChainSet : ChainSendError(c)
    \/ \E c \in ChainSet : ChainFetch(c)
    \/ \E c \in ChainSet : InnerAnswer(c)
    \/ \E c \in ChainSet : ContextDone(c)
    \/ \E c \in ChainSet : ChainSelect(c)
    \/ \E c \in ChainSet : ChainSend(c)
    \/ \E c \in ChainSet : ChainDone(c)

(* The Go scheduler runs every goroutine that can run and the runtime's    *)
(* timer ends every context; a fetch may never answer.                     *)
FanFairness ==
    /\ WF_vars(MainLaunch \/ MainGoCloser \/ MainReceive \/ MainRangeEnd)
    /\ WF_vars(CloserClose)
    /\ \A c \in ChainSet : WF_vars(ChainStep(c)) /\ WF_vars(ContextDone(c))

SpecFan == FanInit /\ [][FanNext]_vars /\ FanFairness

Launched == {c \in ChainSet : fan.chain[c] # "none"}

FanReturned == fan.main = Len(Chains) + 3

FanSafe ==
    /\ ~fan.panic
    /\ \A c \in ChainSet :
        /\ fan.sent[c] <= 1
        /\ fan.chain[c] \in {"exit", "done"} => fan.sent[c] = 1
        /\ fan.chain[c] \in {"send", "send address error"} => CanSend(fan)
    /\ fan.closed => \A c \in Launched : fan.chain[c] = "done"
    /\ fan.chain["bitcoin"] # "none" => fan.network = NetworkMainnet
    /\ fan.main > Len(Chains)
        => Launched = IF fan.network = NetworkMainnet THEN ChainSet
                      ELSE ChainSet \ {"bitcoin"}
    /\ FanReturned
        => /\ fan.received = Cardinality(Launched)
           /\ \A c \in Launched :
                /\ fan.results[c] # <<>>
                /\ fan.results[c][1].Chain = c
           /\ \A c \in ChainSet \ Launched : fan.results[c] = <<>>

(* C30: in showAllTransactionsPaginated, for every interleaving and every  *)
(* outcome of each fetch (transactions, an error, no answer before the     *)
(* timeout), each launched chain goroutine sends exactly one result, no    *)
(* send finds the channel full, the result channel is closed only after    *)
(* all chain goroutines have finished, so that none sends on a closed      *)
(* channel, and the collecting loop ends with one result for each launched *)
(* chain; the Bitcoin goroutine is launched only on mainnet.               *)
C30_FanOutCollectsAll == []FanSafe /\ <>FanReturned

(* on mainnet the loop ended with three results, one of them a timeout and *)
(* one an error of the fetch                                               *)
C30_Witness ==
    /\ FanReturned
    /\ fan.network = NetworkMainnet
    /\ fan.received = 3
    /\ fan.results["bitcoin"] = <<ChainResult("bitcoin", "timeout")>>
    /\ fan.results["ethereum"] = <<ChainResult("ethereum", "fetch")>>
    /\ fan.results["solana"] = <<ChainResult("solana", "")>>
====
